---- MODULE Spec2Model ----
(***************************************************************************)
(* Lead-generation pipeline: PropensityScorer (scoring_engine.py) and      *)
(* LeadGenerationPipeline (main_pipeline.py).                              *)
(*                                                                         *)
(* Text is a sequence of one-character strings, so that str.lower() and    *)
(* the substring test `kw in text` are computed, not assumed.              *)
(*                                                                         *)
(* Numbers.  Every sub-score of the scorer is one of 0, 0.3, 1/3, 0.5,     *)
(* 0.6, 2/3, 0.7, 1.0; it is held as an integer number of thirtieths       *)
(* (One = 1.0).  A weighted contribution sub * weight is then in           *)
(* thirtieths of a point, and probability_score = round(total, 1) is held  *)
(* in tenths of a point (900 is 90.0).                                     *)
(***************************************************************************)
EXTENDS Integers, Sequences, FiniteSets, TLC

VARIABLES
    profile,          \* scorer harness: the profile handed to the scorer
    threshold_result, \* scorer harness: <<result of passes_threshold>>, <<>> before the call
    score_result,     \* scorer harness: <<result of calculate_score>>, <<>> before the call
    all_urls,         \* run: the URL column of the input CSV, NaN dropped
    output_csv,       \* the output file: [state, rows]
    pc,               \* run: position of LeadGenerationPipeline.run
    run_no,           \* number of the current run of the pipeline (1, 2, ...)
    test_mode,        \* run: the test_mode argument
    existing_df,      \* run: existing_df
    urls_to_process,  \* run: urls_to_process
    batch_num,        \* run: batch_num
    profiles,         \* process_batch: results of extract_batch so far
    enriched_profiles,\* process_batch: enriched_profiles
    next_profile,     \* process_batch: index in profiles of the next one to enrich
    prior_output,     \* history: rows of the output file when the run started
    extract_log,      \* history: URLs handed to extract_profile in this run
    enrich_log,       \* history: URLs enriched and scored in this run
    prev_full_run,    \* history: the previous run ran to its end with test_mode off
    pub_lookup,       \* history: <<the last search_publications call of the batch>>
    email_call,       \* email harness: the arguments of generate_email
    email_result,     \* email harness: <<result of generate_email>>, <<>> before the call
    extract_url,      \* extractor harness: the url argument of extract_profile
    extract_trace,    \* extractor harness: the attempts and waits of extract_profile so far
    extract_result,   \* extractor harness: <<what extract_profile returned>>, <<>> before
    articles,         \* parser harness: the PubmedArticle entries of the XML
    article_idx,      \* parser harness: number of entries _parse_pubmed_xml has consumed
    authors_dict,     \* parser harness: authors_dict of _parse_pubmed_xml
    order_urls,       \* two runs: the input list of each run
    order_results,    \* two runs: what extraction and publication search give per URL
    order_df,         \* two runs: existing_df of each run
    order_batch,      \* two runs: batch_num of each run
    order_pc,         \* two runs: position of each run
    seq_urls,         \* one run: urls_to_process
    seq_pc,           \* one run: position of run() between the operations it awaits
    seq_batch,        \* one run: batch_num
    seq_profiles,     \* one run: how the extraction of each profile of the batch ended
    seq_pos,          \* one run: index of the next profile of the batch to enrich
    seq_active,       \* one run: the operations that have begun and not ended
    seq_log,           \* history: the begin and end of each operation, in order
    alt_queries,      \* alternative run: per search query, the authors extract_from_pubmed returns
    alt_top_n,        \* alternative run: top_n_results
    alt_pc,           \* alternative run: position of AlternativePipeline.run
    alt_all_authors,  \* alternative run: all_authors
    alt_unique,       \* alternative run: unique_authors, in the order of its keys
    alt_leads,        \* alternative run: enriched_leads
    alt_scored,       \* history: the names handed to enrich_and_score
    alt_output        \* alternative run: the rows of the output file, <<"absent">> before the write

scorer_vars == <<profile, threshold_result, score_result>>

run_vars ==
    <<all_urls, output_csv, pc, run_no, test_mode, existing_df, urls_to_process,
      batch_num, profiles, enriched_profiles, next_profile, prior_output,
      extract_log, enrich_log, prev_full_run, pub_lookup>>

email_vars == <<email_call, email_result>>

extract_vars == <<extract_url, extract_trace, extract_result>>

parse_vars == <<articles, article_idx, authors_dict>>

order_vars == <<order_urls, order_results, order_df, order_batch, order_pc>>

seq_vars == <<seq_urls, seq_pc, seq_batch, seq_profiles, seq_pos, seq_active, seq_log>>

alt_vars == <<alt_queries, alt_top_n, alt_pc, alt_all_authors, alt_unique, alt_leads, alt_scored, alt_output>>

\* the variables of the harnesses of the later sections
aux_vars == <<order_vars, seq_vars, alt_vars>>

harness_vars == <<email_vars, extract_vars, parse_vars, aux_vars>>

vars == <<scorer_vars, run_vars, harness_vars>>

----
\* Bounds of the model

\* largest publication_count handed to the scorer
MaxPubCount == 6

\* number of URLs in the input CSV
MaxUrls == 3

\* number of runs of the pipeline against the same input and output file
MaxRuns == 2

\* batch_size of the pipeline (10 in main_pipeline.py:48), scaled down so that
\* a run of MaxUrls URLs has more than one batch
BatchSize == 2

\* test_limit of a test-mode run (20 in main_pipeline.py:178), scaled down so
\* that it cuts a list of MaxUrls URLs
TestLimit == 2

----
\* Text

UPPER == <<"A","B","C","D","E","F","G","H","I","J","K","L","M",
           "N","O","P","Q","R","S","T","U","V","W","X","Y","Z">>

LOWER == <<"a","b","c","d","e","f","g","h","i","j","k","l","m",
           "n","o","p","q","r","s","t","u","v","w","x","y","z">>

\* one character of str.lower()
lower_char(c) ==
    IF \E i \in 1..Len(UPPER) : UPPER[i] = c
    THEN LOWER[CHOOSE i \in 1..Len(UPPER) : UPPER[i] = c]
    ELSE c

\* None, the value json.loads gives a field the model answered with null.  It
\* is no text: its one element is not a character.
None == <<"None">>

\* str.lower()
lower(s) == [i \in 1..Len(s) |-> lower_char(s[i])]

\* Python's `kw in text` on strings: kw occurs as a contiguous substring
contains(text, kw) ==
    \E i \in 0..(Len(text) - Len(kw)) : SubSeq(text, i + 1, i + Len(kw)) = kw

\* f"{a} {b}"
join_space(a, b) == a \o <<" ">> \o b

\* any(kw in text for kw in kws), kws a list
any_in(kws, text) == \E i \in 1..Len(kws) : contains(text, kws[i])

\* sum(1 for kw in kws if kw in text)
count_in(kws, text) == Cardinality({i \in 1..Len(kws) : contains(text, kws[i])})

----
\* PropensityScorer: class constants

\* 1.0, the unit of a sub-score (sub-scores are held in thirtieths)
One == 30

\* mutant of WEIGHTS: the publication weight that makes the weights sum to 100
WEIGHTS_sum_to_100 ==
    [role_relevance |-> 30,
     funding_stage |-> 20,
     tech_adoption |-> 15,
     nam_openness |-> 10,
     biotech_hub |-> 10,
     recent_publications |-> 15]

WEIGHTS ==
    [role_relevance |-> 30,
     funding_stage |-> 20,
     tech_adoption |-> 15,
     nam_openness |-> 10,
     biotech_hub |-> 10,
     recent_publications |-> 40]

FACTORS ==
    {"role_relevance", "funding_stage", "tech_adoption",
     "nam_openness", "biotech_hub", "recent_publications"}

\* "director of toxicology", "head of toxicology", "head of preclinical safety", "director of preclinical safety", "safety assessment", "hepatic toxicology", "investigative toxicology"
TARGET_ROLES ==
    { <<"d","i","r","e","c","t","o","r"," ","o","f"," ","t","o","x","i","c","o","l","o","g","y">>,
       <<"h","e","a","d"," ","o","f"," ","t","o","x","i","c","o","l","o","g","y">>,
       <<"h","e","a","d"," ","o","f"," ","p","r","e","c","l","i","n","i","c","a","l"," ","s","a","f","e","t","y">>,
       <<"d","i","r","e","c","t","o","r"," ","o","f"," ","p","r","e","c","l","i","n","i","c","a","l"," ","s","a","f","e","t","y">>,
       <<"s","a","f","e","t","y"," ","a","s","s","e","s","s","m","e","n","t">>,
       <<"h","e","p","a","t","i","c"," ","t","o","x","i","c","o","l","o","g","y">>,
       <<"i","n","v","e","s","t","i","g","a","t","i","v","e"," ","t","o","x","i","c","o","l","o","g","y">> }

\* "director", "head", "vp", "vice president", "chief", "lead"
ROLE_KEYWORDS_high ==
    << <<"d","i","r","e","c","t","o","r">>,
       <<"h","e","a","d">>,
       <<"v","p">>,
       <<"v","i","c","e"," ","p","r","e","s","i","d","e","n","t">>,
       <<"c","h","i","e","f">>,
       <<"l","e","a","d">> >>

\* "senior", "principal", "manager"
ROLE_KEYWORDS_medium ==
    << <<"s","e","n","i","o","r">>,
       <<"p","r","i","n","c","i","p","a","l">>,
       <<"m","a","n","a","g","e","r">> >>

\* "scientist", "associate", "specialist"
ROLE_KEYWORDS_low ==
    << <<"s","c","i","e","n","t","i","s","t">>,
       <<"a","s","s","o","c","i","a","t","e">>,
       <<"s","p","e","c","i","a","l","i","s","t">> >>

\* mutant of RELEVANT_DOMAINS: "preclinical" is not a domain keyword
RELEVANT_DOMAINS_without_preclinical ==
    << <<"t","o","x","i","c","o","l","o","g","y">>,
       <<"t","o","x","i","c","o","l","o","g","i","s","t">>,
       <<"s","a","f","e","t","y"," ","a","s","s","e","s","s","m","e","n","t">>,
       <<"h","e","p","a","t","i","c">>,
       <<"i","n","v","e","s","t","i","g","a","t","i","v","e">>,
       <<"d","i","l","i">>,
       <<"l","i","v","e","r">> >>

\* "toxicology", "toxicologist", "safety assessment", "preclinical", "hepatic", "investigative", "dili", "liver"
RELEVANT_DOMAINS ==
    << <<"t","o","x","i","c","o","l","o","g","y">>,
       <<"t","o","x","i","c","o","l","o","g","i","s","t">>,
       <<"s","a","f","e","t","y"," ","a","s","s","e","s","s","m","e","n","t">>,
       <<"p","r","e","c","l","i","n","i","c","a","l">>,
       <<"h","e","p","a","t","i","c">>,
       <<"i","n","v","e","s","t","i","g","a","t","i","v","e">>,
       <<"d","i","l","i">>,
       <<"l","i","v","e","r">> >>

\* "3d", "organoid", "organ-on-chip", "microphysiological", "spheroid"
TECH_KEYWORDS ==
    << <<"3","d">>,
       <<"o","r","g","a","n","o","i","d">>,
       <<"o","r","g","a","n","-","o","n","-","c","h","i","p">>,
       <<"m","i","c","r","o","p","h","y","s","i","o","l","o","g","i","c","a","l">>,
       <<"s","p","h","e","r","o","i","d">> >>

\* "alternative methods", "nam", "reduce animal", "3rs", "in vitro"
NAM_KEYWORDS ==
    << <<"a","l","t","e","r","n","a","t","i","v","e"," ","m","e","t","h","o","d","s">>,
       <<"n","a","m">>,
       <<"r","e","d","u","c","e"," ","a","n","i","m","a","l">>,
       <<"3","r","s">>,
       <<"i","n"," ","v","i","t","r","o">> >>

\* "series a", "series b"
FUNDING_AB ==
    << <<"s","e","r","i","e","s"," ","a">>,
       <<"s","e","r","i","e","s"," ","b">> >>

\* "series c", "seed"
FUNDING_C_SEED ==
    << <<"s","e","r","i","e","s"," ","c">>,
       <<"s","e","e","d">> >>

----
\* PropensityScorer: methods

\* mutant of passes_threshold: the about text is not looked at
passes_threshold_title_only(p) ==
    LET title == lower(p.title)
    IN  \E i \in 1..Len(RELEVANT_DOMAINS) : contains(title, RELEVANT_DOMAINS[i])

\* passes_threshold(profile)
passes_threshold(p) ==
    LET title == lower(p.title)
        about == lower(p.about)
    IN  \E i \in 1..Len(RELEVANT_DOMAINS) :
            contains(title, RELEVANT_DOMAINS[i]) \/ contains(about, RELEVANT_DOMAINS[i])

\* mutant of _score_role: the seniority tiers are tried from low to high
_score_role_low_first(title, about) ==
    LET title_lower == lower(title)
        about_lower == lower(about)
        domain_match ==
            \E i \in 1..Len(RELEVANT_DOMAINS) :
                contains(title_lower, RELEVANT_DOMAINS[i])
                    \/ contains(about_lower, RELEVANT_DOMAINS[i])
    IN  IF \E target \in TARGET_ROLES : contains(title_lower, target) THEN One
        ELSE IF ~domain_match THEN 0
        ELSE IF any_in(ROLE_KEYWORDS_low, title_lower) THEN 9
        ELSE IF any_in(ROLE_KEYWORDS_medium, title_lower) THEN 18
        ELSE IF any_in(ROLE_KEYWORDS_high, title_lower) THEN One
        ELSE 15

\* _score_role(title, about)
_score_role(title, about) ==
    LET title_lower == lower(title)
        about_lower == lower(about)
        domain_match ==
            \E i \in 1..Len(RELEVANT_DOMAINS) :
                contains(title_lower, RELEVANT_DOMAINS[i])
                    \/ contains(about_lower, RELEVANT_DOMAINS[i])
    IN  IF \E target \in TARGET_ROLES : contains(title_lower, target) THEN One
        ELSE IF ~domain_match THEN 0
        ELSE IF any_in(ROLE_KEYWORDS_high, title_lower) THEN One
        ELSE IF any_in(ROLE_KEYWORDS_medium, title_lower) THEN 18
        ELSE IF any_in(ROLE_KEYWORDS_low, title_lower) THEN 9
        ELSE 15

\* mutant of _score_funding: an unknown stage scores nothing
_score_funding_unknown_zero(stage) ==
    LET stage_lower == lower(stage)
    IN  IF any_in(FUNDING_AB, stage_lower) THEN One
        ELSE IF any_in(FUNDING_C_SEED, stage_lower) THEN 18
        ELSE 0

\* _score_funding(stage)
_score_funding(stage) ==
    LET stage_lower == lower(stage)
    IN  IF any_in(FUNDING_AB, stage_lower) THEN One
        ELSE IF any_in(FUNDING_C_SEED, stage_lower) THEN 18
        ELSE 9

\* min(a, b)
min(a, b) == IF a <= b THEN a ELSE b

\* _score_tech_adoption(about, skills): min(matches / 3, 1.0)
_score_tech_adoption(about, skills) ==
    LET combined == lower(join_space(about, skills))
        matches == count_in(TECH_KEYWORDS, combined)
    IN  min((matches * One) \div 3, One)

\* _score_nam_openness(about, skills): min(matches / 2, 1.0)
_score_nam_openness(about, skills) ==
    LET combined == lower(join_space(about, skills))
        matches == count_in(NAM_KEYWORDS, combined)
    IN  min((matches * One) \div 2, One)

\* _score_location(is_hub)
_score_location(is_hub) == IF is_hub THEN One ELSE 0

\* _score_publications(count, has_recent)
_score_publications(count, has_recent) ==
    IF ~has_recent THEN 0
    ELSE IF count >= 6 THEN One
    ELSE IF count >= 3 THEN 21
    ELSE IF count >= 1 THEN 15
    ELSE 0

\* sum(scores.values()) over the six factors of a breakdown
sum_values(scores) ==
    scores.role_relevance + scores.funding_stage + scores.tech_adoption
        + scores.nam_openness + scores.biotech_hub + scores.recent_publications

\* round(total, 1): total in thirtieths of a point, result in tenths of a
\* point, to the nearest tenth (a third is never half way between two tenths)
round1(total) == (2 * total + 3) \div 6

\* the six weighted sub-scores of calculate_score, in thirtieths of a point
weighted_scores(p) ==
    [role_relevance |-> _score_role(p.title, p.about) * WEIGHTS.role_relevance,
     funding_stage |-> _score_funding(p.funding_stage) * WEIGHTS.funding_stage,
     tech_adoption |-> _score_tech_adoption(p.about, p.skills) * WEIGHTS.tech_adoption,
     nam_openness |-> _score_nam_openness(p.about, p.skills) * WEIGHTS.nam_openness,
     biotech_hub |-> _score_location(p.is_biotech_hub) * WEIGHTS.biotech_hub,
     recent_publications |->
        _score_publications(p.publication_count, p.has_recent_pubs)
            * WEIGHTS.recent_publications]

\* mutant of calculate_score: no threshold check before the sub-scores
calculate_score_no_gate(p) ==
    LET scores == weighted_scores(p)
    IN  [probability_score |-> round1(sum_values(scores)),
         score_breakdown |-> [kind |-> "map", map |-> scores],
         evaluated |-> FACTORS]

\* mutant of calculate_score: the total is clamped to 100 before it is returned
calculate_score_clamped(p) ==
    IF ~passes_threshold(p)
    THEN [probability_score |-> 0,
          score_breakdown |->
            [kind |-> "text", text |-> "Profile did not pass relevance threshold"],
          evaluated |-> {}]
    ELSE LET scores == weighted_scores(p)
         IN  [probability_score |-> min(round1(sum_values(scores)), 1000),
              score_breakdown |-> [kind |-> "map", map |-> scores],
              evaluated |-> FACTORS]

\* calculate_score(profile).  score_breakdown is either the explanatory text
\* (kind "text") or the mapping of factor to points (kind "map", values in
\* thirtieths of a point); evaluated is the set of sub-scores computed.
calculate_score(p) ==
    IF ~passes_threshold(p)
    THEN [probability_score |-> 0,
          score_breakdown |->
            [kind |-> "text", text |-> "Profile did not pass relevance threshold"],
          evaluated |-> {}]
    ELSE LET scores == weighted_scores(p)
         IN  [probability_score |-> round1(sum_values(scores)),
              score_breakdown |-> [kind |-> "map", map |-> scores],
              evaluated |-> FACTORS]

----
\* enrichment_engine.py

\* "boston", "cambridge", "san diego", "san francisco", "bay area", "basel", "munich", "london", "seattle", "research triangle", "raleigh", "durham"
BIOTECH_HUBS ==
    { <<"b","o","s","t","o","n">>,
       <<"c","a","m","b","r","i","d","g","e">>,
       <<"s","a","n"," ","d","i","e","g","o">>,
       <<"s","a","n"," ","f","r","a","n","c","i","s","c","o">>,
       <<"b","a","y"," ","a","r","e","a">>,
       <<"b","a","s","e","l">>,
       <<"m","u","n","i","c","h">>,
       <<"l","o","n","d","o","n">>,
       <<"s","e","a","t","t","l","e">>,
       <<"r","e","s","e","a","r","c","h"," ","t","r","i","a","n","g","l","e">>,
       <<"r","a","l","e","i","g","h">>,
       <<"d","u","r","h","a","m">> }

\* "therapeutics", "bio", "pharma"
FUNDING_TERMS ==
    << <<"t","h","e","r","a","p","e","u","t","i","c","s">>,
       <<"b","i","o">>,
       <<"p","h","a","r","m","a">> >>

\* page size of the PubMed search (retmax)
RETMAX == 20

\* answers of the PubMed search: an error (network failure, HTTP error status,
\* malformed body), or the number of ids in idlist
PubMedResponses ==
    {[error |-> e, ids |-> 0] :
        e \in {"ConnectionError", "HTTPError", "JSONDecodeError", "TypeError"}}
    \cup {[error |-> "none", ids |-> n] : n \in 0..RETMAX}

\* the answers the runs of the pipeline are checked with
PubMedAnswers ==
    {a \in PubMedResponses : a.error \in {"none", "ConnectionError"} /\ a.ids \in {0, RETMAX}}

\* mutant of search_publications: has_recent_pubs says that the request was
\* answered, not that it matched
search_publications_answered(author_name, answer) ==
    IF author_name = <<>> \/ author_name = None
    THEN [publication_count |-> 0, has_recent_pubs |-> FALSE]
    ELSE IF answer.error # "none" THEN [publication_count |-> 0, has_recent_pubs |-> FALSE]
    ELSE [publication_count |-> answer.ids, has_recent_pubs |-> TRUE]

\* PublicationEnricher.search_publications(author_name, months_back), given
\* the answer the request gets
search_publications(author_name, answer) ==
    IF author_name = <<>> \/ author_name = None
    THEN [publication_count |-> 0, has_recent_pubs |-> FALSE]
    ELSE IF answer.error # "none" THEN [publication_count |-> 0, has_recent_pubs |-> FALSE]
    ELSE [publication_count |-> answer.ids, has_recent_pubs |-> answer.ids > 0]

\* CompanyEnricher._is_biotech_hub(location)
_is_biotech_hub(location) ==
    IF location = <<>> THEN FALSE
    ELSE \E hub \in BIOTECH_HUBS : contains(lower(location), hub)

\* CompanyEnricher._infer_funding_stage(company)
_infer_funding_stage(company) ==
    IF company = <<>> THEN <<"U","n","k","n","o","w","n">>
    ELSE IF any_in(FUNDING_TERMS, lower(company))
         THEN <<"S","e","r","i","e","s"," ","A","/","B">>
         ELSE <<"U","n","k","n","o","w","n">>

\* CompanyEnricher.enrich_company(company_name, location); company_hq is not
\* read by the scorer or the ranking and is left out
enrich_company(company_name, location) ==
    [is_biotech_hub |-> _is_biotech_hub(location),
     funding_stage |-> _infer_funding_stage(company_name)]

----
\* LinkedInExtractor.extract_profile: what it returns for a URL

\* the profiles the extraction returns on success: one that fails the
\* relevance threshold, one that passes it (its score varies with the
\* answer of the publication search) and one whose title is null
ExtractedProfiles ==
    { [title |-> <<"V","P"," ","S","a","l","e","s">>,
       about |-> <<>>, skills |-> <<>>,
       name |-> <<"A","l"," ","R","o","e">>,
       company |-> <<"G","l","o","b","e","x">>,
       location |-> <<"A","u","s","t","i","n">>],
      [title |-> <<"D","i","r","e","c","t","o","r"," ","o","f"," ","T","o","x","i","c","o","l","o","g","y">>,
       about |-> <<"D","I","L","I"," ","o","r","g","a","n","o","i","d"," ","3","D"," ","s","p","h","e","r","o","i","d"," ","i","n"," ","v","i","t","r","o"," ","N","A","M">>,
       skills |-> <<>>,
       name |-> <<"B","o"," ","L","i">>,
       company |-> <<"A","c","m","e"," ","T","h","e","r","a","p","e","u","t","i","c","s"," ","I","n","c">>,
       location |-> <<"B","o","s","t","o","n",","," ","M","A">>],
      [title |-> None,
       about |-> <<"D","I","L","I"," ","o","r","g","a","n","o","i","d"," ","3","D"," ","s","p","h","e","r","o","i","d"," ","i","n"," ","v","i","t","r","o"," ","N","A","M">>,
       skills |-> <<>>,
       name |-> <<"C","y"," ","P","o","e">>,
       company |-> <<"I","n","i","t","e","c","h">>,
       location |-> <<"B","a","s","e","l">>] }

\* outcomes of extract_profile: every attempt failed, or a profile was parsed
ExtractionOutcomes ==
    {[ok |-> FALSE, data |-> <<>>]} \cup {[ok |-> TRUE, data |-> d] : d \in ExtractedProfiles}

\* the dict extract_profile returns for url
extract_profile(url, outcome) ==
    IF outcome.ok
    THEN [linkedin_url |-> url, extraction_status |-> "success",
          title |-> outcome.data.title, about |-> outcome.data.about,
          skills |-> outcome.data.skills, name |-> outcome.data.name,
          company |-> outcome.data.company, location |-> outcome.data.location]
    ELSE [linkedin_url |-> url, extraction_status |-> "failed",
          title |-> <<>>, about |-> <<>>, skills |-> <<>>, name |-> <<>>,
          company |-> <<>>, location |-> <<>>]

----
\* LeadGenerationPipeline (main_pipeline.py)
\*
\* A DataFrame is [columns, rows].  Of the columns only rank,
\* probability_score, linkedin_url and extraction_status are read by run();
\* the other output columns are carried along unread and are left out.  A row
\* holds "nan" where its frame has no value for the column.  The field origin
\* of a row is history, not a column: how the extraction that produced the
\* record ended.  No action reads it.

OutputColumns == {"rank", "probability_score", "linkedin_url"}

BatchColumns == OutputColumns \cup {"extraction_status"}

\* pd.DataFrame()
EmptyDF == [columns |-> {}, rows |-> <<>>]

\* the input lists.  URLs are opaque, so they are numbered by first
\* occurrence: the list starts with URL 1 and URL n+1 first occurs after URL n.
InputLists ==
    {s \in UNION {[1..n -> 1..MaxUrls] : n \in 0..MaxUrls} :
        \A i \in 1..Len(s) :
            \/ \E j \in 1..(i - 1) : s[j] = s[i]
            \/ s[i] = Cardinality({s[j] : j \in 1..(i - 1)}) + 1}

\* load_existing_results(): pd.read_csv of the file to_csv wrote.  The file has
\* the output columns only, so the frame has no extraction_status column.  A
\* score is written with one decimal and a rank as an integer, and both are
\* read back as the numbers written; a missing, empty or unparsable file gives
\* the empty frame.
load_existing_results(file) ==
    IF file.state = "ok"
    THEN [columns |-> OutputColumns,
          rows |-> [i \in 1..Len(file.rows) |->
                      [rank |-> file.rows[i].rank,
                       probability_score |-> file.rows[i].probability_score,
                       linkedin_url |-> file.rows[i].linkedin_url,
                       extraction_status |-> "nan",
                       origin |-> file.rows[i].origin]]]
    ELSE EmptyDF

\* mutant of get_processed_urls: the linkedin_url column is not found
get_processed_urls_none(df) == {}

\* get_processed_urls(existing_df)
get_processed_urls(df) ==
    IF "linkedin_url" \in df.columns
    THEN {df.rows[i].linkedin_url : i \in 1..Len(df.rows)}
    ELSE {}

\* (len(urls_to_process) + batch_size - 1) // batch_size
total_batches(urls) == (Len(urls) + BatchSize - 1) \div BatchSize

\* urls_to_process[start_idx:end_idx] of batch n
end_idx(urls, n) == min(n * BatchSize + BatchSize, Len(urls))

batch_urls(urls, n) == SubSeq(urls, n * BatchSize + 1, end_idx(urls, n))

\* the placeholder record of a failed extraction
failed_record(p) ==
    [rank |-> 0, probability_score |-> 0, linkedin_url |-> p.linkedin_url,
     extraction_status |-> "failed", origin |-> "failed"]

\* the profile after profile.update(pub_data) and profile.update(company_data)
enriched(p, pub_data, company_data) ==
    [title |-> p.title, about |-> p.about, skills |-> p.skills,
     funding_stage |-> company_data.funding_stage,
     is_biotech_hub |-> company_data.is_biotech_hub,
     publication_count |-> pub_data.publication_count,
     has_recent_pubs |-> pub_data.has_recent_pubs]

\* passes_threshold raises AttributeError: profile.get("title", "") and
\* profile.get("about", "") give None for a key that is present with the value
\* None, and None has no lower()
raises_AttributeError(p) == p.title = None \/ p.about = None

\* process_batch's view of an extracted profile: the threshold verdict, and
\* the score for each answer the publication search can get.  The table is
\* passes_threshold and calculate_score applied to the profiles the extraction
\* returns, tabulated once for the model checker.
profile_data(p) ==
    [title |-> p.title, about |-> p.about, skills |-> p.skills, name |-> p.name,
     company |-> p.company, location |-> p.location]

scored(d, answer) ==
    calculate_score(enriched(d, search_publications(d.name, answer),
                             enrich_company(d.company, d.location)))

ProcessingTable ==
    {<<d, ~raises_AttributeError(d) /\ passes_threshold(d),
       {<<answer, scored(d, answer).probability_score>> : answer \in PubMedAnswers}>> :
        d \in ExtractedProfiles}

table_entry(p) == CHOOSE t \in ProcessingTable : t[1] = profile_data(p)

\* mutant of profile_passes: the gate lets every profile through
profile_passes_always(p) == TRUE

\* self.scorer.passes_threshold(profile) in process_batch
profile_passes(p) == table_entry(p)[2]

\* score_data['probability_score'] in process_batch
profile_score(p, answer) ==
    LET row == CHOOSE r \in table_entry(p)[3] : r[1] = answer
    IN  row[2]

\* the record of an enriched and scored profile
enriched_record(p, answer) ==
    [rank |-> 0, probability_score |-> profile_score(p, answer),
     linkedin_url |-> p.linkedin_url,
     extraction_status |-> "success", origin |-> "success"]

\* pd.DataFrame(enriched_profiles)
DataFrame(records) ==
    IF records = <<>> THEN EmptyDF ELSE [columns |-> BatchColumns, rows |-> records]

\* the frame run() sorts: pd.concat([existing_df, batch_df]) or batch_df
combine(existing, batch) ==
    IF Len(existing.rows) > 0
    THEN [columns |-> existing.columns \cup batch.columns,
          rows |-> existing.rows \o batch.rows]
    ELSE batch

\* the permutations of 1..n
Permutations_of(n) == Permutations(1..n)

\* sort_values('probability_score', ascending=False).reset_index(drop=True):
\* the default kind is quicksort, which is not stable, so the result is any
\* arrangement of the rows with non-increasing scores
sort_values(rows) ==
    {[i \in 1..Len(rows) |-> rows[f[i]]] : f \in
        {g \in Permutations_of(Len(rows)) :
            \A i \in 1..(Len(rows) - 1) :
                rows[g[i]].probability_score >= rows[g[i + 1]].probability_score}}

\* mutant of scored_mask: every row is ranked
scored_mask_all(row) == TRUE

\* scored_mask
scored_mask(row) == row.probability_score > 0 /\ row.extraction_status = "success"

\* combined_df['rank'] = 0; combined_df.loc[scored_mask, 'rank'] = range(1, k + 1)
assign_ranks(rows) ==
    [i \in 1..Len(rows) |->
        [rows[i] EXCEPT !.rank =
            IF scored_mask(rows[i])
            THEN Cardinality({j \in 1..i : scored_mask(rows[j])})
            ELSE 0]]

\* combined_df[output_columns].to_csv(output_csv): the rows as the file holds them
to_csv(rows) ==
    [i \in 1..Len(rows) |->
        [rank |-> rows[i].rank, probability_score |-> rows[i].probability_score,
         linkedin_url |-> rows[i].linkedin_url, origin |-> rows[i].origin]]

\* the run-local state before run() is entered
RunNotStarted ==
    /\ all_urls = <<>>
    /\ output_csv = [state |-> "absent", rows |-> <<>>]
    /\ pc = "idle"
    /\ run_no = 1
    /\ test_mode = FALSE
    /\ existing_df = EmptyDF
    /\ urls_to_process = <<>>
    /\ batch_num = 0
    /\ profiles = <<>>
    /\ enriched_profiles = <<>>
    /\ next_profile = 1
    /\ prior_output = <<>>
    /\ extract_log = <<>>
    /\ enrich_log = <<>>
    /\ prev_full_run = FALSE
    /\ pub_lookup = <<>>

\* generate_email has not been called
EmailIdle ==
    /\ email_call = <<>>
    /\ email_result = <<>>

\* extract_profile has not been called
ExtractIdle ==
    /\ extract_url = 0
    /\ extract_trace = <<>>
    /\ extract_result = <<>>

\* _parse_pubmed_xml has not been called
ParseIdle ==
    /\ articles = <<>>
    /\ article_idx = 0
    /\ authors_dict = <<>>

\* no pair of runs has been set up
OrderIdle ==
    /\ order_urls = <<>>
    /\ order_results = <<>>
    /\ order_df = <<>>
    /\ order_batch = <<>>
    /\ order_pc = <<>>

\* run() has not been entered for the trace of its operations
SeqIdle ==
    /\ seq_urls = <<>>
    /\ seq_pc = "idle"
    /\ seq_batch = 0
    /\ seq_profiles = <<>>
    /\ seq_pos = 0
    /\ seq_active = {}
    /\ seq_log = <<>>

\* AlternativePipeline.run has not been entered
AltIdle ==
    /\ alt_queries = <<>>
    /\ alt_top_n = 0
    /\ alt_pc = "idle"
    /\ alt_all_authors = <<>>
    /\ alt_unique = <<>>
    /\ alt_leads = <<>>
    /\ alt_scored = <<>>
    /\ alt_output = <<"absent">>

\* the harnesses of the later sections are idle
AuxIdle == OrderIdle /\ SeqIdle /\ AltIdle

\* no function of the enrichers, the extractor or the parser has been called
HarnessIdle == EmailIdle /\ ExtractIdle /\ ParseIdle /\ AuxIdle

\* the scorer has not been handed a profile
ScorerIdle ==
    /\ profile = <<>>
    /\ threshold_result = <<>>
    /\ score_result = <<>>

----
\* Inputs of the scorer harness

\* "Director of Toxicology", "Senior Toxicologist", "VP Sales", "Liver Scientist", "HEAD OF PRECLINICAL SAFETY", "Delivery Associate", "", "Hepatic Research", "Lead Manager"
Titles ==
    { <<"D","i","r","e","c","t","o","r"," ","o","f"," ","T","o","x","i","c","o","l","o","g","y">>,
       <<"S","e","n","i","o","r"," ","T","o","x","i","c","o","l","o","g","i","s","t">>,
       <<"V","P"," ","S","a","l","e","s">>,
       <<"L","i","v","e","r"," ","S","c","i","e","n","t","i","s","t">>,
       <<"H","E","A","D"," ","O","F"," ","P","R","E","C","L","I","N","I","C","A","L"," ","S","A","F","E","T","Y">>,
       <<"D","e","l","i","v","e","r","y"," ","A","s","s","o","c","i","a","t","e">>,
       <<>>,
       <<"H","e","p","a","t","i","c"," ","R","e","s","e","a","r","c","h">>,
       <<"L","e","a","d"," ","M","a","n","a","g","e","r">> }

\* "", "DILI organoid 3D spheroid in vitro NAM", "Dynamic sales", "Investigative work, 3Rs"
Abouts ==
    { <<>>,
       <<"D","I","L","I"," ","o","r","g","a","n","o","i","d"," ","3","D"," ","s","p","h","e","r","o","i","d"," ","i","n"," ","v","i","t","r","o"," ","N","A","M">>,
       <<"D","y","n","a","m","i","c"," ","s","a","l","e","s">>,
       <<"I","n","v","e","s","t","i","g","a","t","i","v","e"," ","w","o","r","k",","," ","3","R","s">> }

\* "", "Organ-on-chip, microphysiological"
SkillTexts ==
    { <<>>,
       <<"O","r","g","a","n","-","o","n","-","c","h","i","p",","," ","m","i","c","r","o","p","h","y","s","i","o","l","o","g","i","c","a","l">> }

\* "", "Series A/B", "Unknown", "Seed", "SERIES C"
FundingTexts ==
    { <<>>,
       <<"S","e","r","i","e","s"," ","A","/","B">>,
       <<"U","n","k","n","o","w","n">>,
       <<"S","e","e","d">>,
       <<"S","E","R","I","E","S"," ","C">> }

Profiles ==
    [title : Titles, about : Abouts, skills : SkillTexts,
     funding_stage : FundingTexts, is_biotech_hub : BOOLEAN,
     publication_count : 0..MaxPubCount, has_recent_pubs : BOOLEAN]

----
\* Scorer harness: one profile, passes_threshold and calculate_score applied

InitScore ==
    /\ profile \in Profiles
    /\ threshold_result = <<>>
    /\ score_result = <<>>
    /\ RunNotStarted
    /\ HarnessIdle

CallPassesThreshold ==
    /\ threshold_result = <<>>
    /\ threshold_result' = <<passes_threshold(profile)>>
    /\ UNCHANGED <<profile, score_result, run_vars, harness_vars>>

CallCalculateScore ==
    /\ score_result = <<>>
    /\ score_result' = <<calculate_score(profile)>>
    /\ UNCHANGED <<profile, threshold_result, run_vars, harness_vars>>

NextScore == CallPassesThreshold \/ CallCalculateScore

SpecScore == InitScore /\ [][NextScore]_vars

----
\* LeadGenerationPipeline.run, one run after another against the same input
\* CSV and the same output file

Init ==
    /\ ScorerIdle
    /\ HarnessIdle
    /\ pub_lookup = <<>>
    /\ all_urls \in InputLists
    /\ output_csv \in {[state |-> "absent", rows |-> <<>>],
                       [state |-> "unreadable", rows |-> <<>>]}
    /\ pc = "idle"
    /\ run_no = 1
    /\ test_mode = FALSE
    /\ existing_df = EmptyDF
    /\ urls_to_process = <<>>
    /\ batch_num = 0
    /\ profiles = <<>>
    /\ enriched_profiles = <<>>
    /\ next_profile = 1
    /\ prior_output = <<>>
    /\ extract_log = <<>>
    /\ enrich_log = <<>>
    /\ prev_full_run = FALSE

\* run(), up to the batch loop: read the input, load the existing results,
\* filter the URLs already processed, cut to test_limit in test mode
RunStart ==
    /\ pc = "idle"
    /\ \E tm \in BOOLEAN :
        LET loaded == load_existing_results(output_csv)
            processed_urls == get_processed_urls(loaded)
            NotProcessed(url) == url \notin processed_urls
            filtered == SelectSeq(all_urls, NotProcessed)
            todo == IF tm THEN SubSeq(filtered, 1, min(TestLimit, Len(filtered)))
                    ELSE filtered
        IN  /\ test_mode' = tm
            /\ existing_df' = loaded
            /\ urls_to_process' = todo
            /\ prior_output' = (IF output_csv.state = "ok" THEN output_csv.rows ELSE <<>>)
            /\ pc' = IF todo = <<>> THEN "done" ELSE "extract"
    /\ batch_num' = 0
    /\ profiles' = <<>>
    /\ enriched_profiles' = <<>>
    /\ next_profile' = 1
    /\ extract_log' = <<>>
    /\ enrich_log' = <<>>
    /\ pub_lookup' = <<>>
    /\ UNCHANGED <<scorer_vars, harness_vars, all_urls, output_csv, run_no, prev_full_run>>

\* process_batch, step 1: extract_batch extracts the next URL of the batch
ExtractProfile ==
    /\ pc = "extract"
    /\ LET urls == batch_urls(urls_to_process, batch_num)
           url == urls[Len(profiles) + 1]
       IN  /\ \E outcome \in ExtractionOutcomes :
                profiles' = Append(profiles, extract_profile(url, outcome))
           /\ extract_log' = Append(extract_log, url)
           /\ pc' = IF Len(profiles) + 1 = Len(urls) THEN "enrich" ELSE "extract"
    /\ next_profile' = 1
    /\ enriched_profiles' = <<>>
    /\ UNCHANGED <<scorer_vars, harness_vars, all_urls, output_csv, run_no, test_mode, existing_df,
                   urls_to_process, batch_num, prior_output, enrich_log, prev_full_run,
                   pub_lookup>>

\* process_batch, step 2: one pass of the loop over the extracted profiles
ProcessProfile ==
    /\ pc = "enrich"
    /\ LET p == profiles[next_profile]
       IN  \/ /\ p.extraction_status # "success"
              /\ enriched_profiles' = Append(enriched_profiles, failed_record(p))
              /\ enrich_log' = enrich_log
              /\ pub_lookup' = pub_lookup
           \/ /\ p.extraction_status = "success"
              /\ ~raises_AttributeError(p)
              /\ ~profile_passes(p)
              /\ enriched_profiles' = enriched_profiles
              /\ enrich_log' = enrich_log
              /\ pub_lookup' = pub_lookup
           \/ /\ p.extraction_status = "success"
              /\ ~raises_AttributeError(p)
              /\ profile_passes(p)
              /\ \E answer \in PubMedAnswers :
                    /\ enriched_profiles' = Append(enriched_profiles, enriched_record(p, answer))
                    /\ pub_lookup' = <<[index |-> next_profile, answer |-> answer,
                                        pub_data |-> search_publications(p.name, answer)]>>
              /\ enrich_log' = Append(enrich_log, p.linkedin_url)
    /\ next_profile' = next_profile + 1
    /\ pc' = IF next_profile = Len(profiles) THEN "checkpoint" ELSE "enrich"
    /\ UNCHANGED <<scorer_vars, harness_vars, all_urls, output_csv, run_no, test_mode, existing_df,
                   urls_to_process, batch_num, profiles, prior_output, extract_log,
                   prev_full_run>>

\* process_batch, step 2, for a profile on which passes_threshold raises:
\* nothing in process_batch or run() catches the exception, so it leaves run()
\* with the batch unsaved
ProcessProfileRaises ==
    /\ pc = "enrich"
    /\ profiles[next_profile].extraction_status = "success"
    /\ raises_AttributeError(profiles[next_profile])
    /\ pc' = "profile_error"
    /\ UNCHANGED <<scorer_vars, harness_vars, all_urls, output_csv, run_no, test_mode, existing_df,
                   urls_to_process, batch_num, profiles, enriched_profiles,
                   next_profile, prior_output, extract_log, enrich_log, prev_full_run,
                   pub_lookup>>

\* run(), the rest of the batch loop's body: combine, sort, rank, save
Checkpoint ==
    /\ pc = "checkpoint"
    /\ LET batch_df == DataFrame(enriched_profiles)
           combined_df == combine(existing_df, batch_df)
       IN  /\ "probability_score" \in combined_df.columns
           /\ "extraction_status" \in combined_df.columns
           /\ \E sorted \in sort_values(combined_df.rows) :
                LET ranked == assign_ranks(sorted)
                IN  /\ output_csv' = [state |-> "ok", rows |-> to_csv(ranked)]
                    /\ existing_df' = [columns |-> combined_df.columns \cup {"rank"},
                                       rows |-> ranked]
    /\ IF end_idx(urls_to_process, batch_num) < Len(urls_to_process)
       THEN /\ batch_num' = batch_num + 1
            /\ pc' = "extract"
       ELSE /\ batch_num' = batch_num
            /\ pc' = "done"
    /\ profiles' = <<>>
    /\ enriched_profiles' = <<>>
    /\ next_profile' = 1
    /\ pub_lookup' = <<>>
    /\ UNCHANGED <<scorer_vars, harness_vars, all_urls, run_no, test_mode, urls_to_process,
                   prior_output, extract_log, enrich_log, prev_full_run>>

\* run(): sort_values or the scored mask raises KeyError, because the combined
\* frame has no probability_score column (nothing loaded, empty batch) or no
\* extraction_status column (results loaded from the file, empty batch); the
\* exception leaves run() and nothing is written
CheckpointKeyError ==
    /\ pc = "checkpoint"
    /\ LET combined_df == combine(existing_df, DataFrame(enriched_profiles))
       IN  \/ "probability_score" \notin combined_df.columns
           \/ "extraction_status" \notin combined_df.columns
    /\ pc' = "crashed"
    /\ UNCHANGED <<scorer_vars, harness_vars, all_urls, output_csv, run_no, test_mode, existing_df,
                   urls_to_process, batch_num, profiles, enriched_profiles,
                   next_profile, prior_output, extract_log, enrich_log, prev_full_run,
                   pub_lookup>>

\* the process is stopped from outside (interrupt, kill, power loss) while a
\* batch is being processed and the output file is not being written; the
\* batch in progress is gone, and what the run had saved is kept for reference
Abort ==
    /\ pc \in {"extract", "enrich", "checkpoint"}
    /\ pc' = "killed"
    /\ profiles' = <<>>
    /\ enriched_profiles' = <<>>
    /\ next_profile' = 1
    /\ extract_log' = <<>>
    /\ enrich_log' = <<>>
    /\ pub_lookup' = <<>>
    /\ UNCHANGED <<scorer_vars, harness_vars, all_urls, output_csv, run_no, test_mode, existing_df,
                   urls_to_process, batch_num, prior_output, prev_full_run>>

\* what the destination holds when to_csv(self.output_csv) does not finish:
\* to_csv opens the destination itself for writing, which empties it, and
\* then writes the header and the rows in order.  Nothing written yet is an
\* empty file, which read_csv cannot parse.  A write that stops between two
\* fields leaves a file read_csv parses (state "ok"); one that stops inside a
\* quoted field (a name, title or location with a comma) leaves the complete
\* rows before it in a file read_csv raises on (state "unreadable").
interrupted_writes(rows) ==
    {[state |-> "unreadable", rows |-> <<>>]} \cup
    {[state |-> st, rows |-> SubSeq(rows, 1, k)] :
        st \in {"ok", "unreadable"}, k \in 0..(Len(rows) - 1)}

\* run(): to_csv fails or the process stops while to_csv is writing
CheckpointInterrupted ==
    /\ pc = "checkpoint"
    /\ LET combined_df == combine(existing_df, DataFrame(enriched_profiles))
       IN  /\ "probability_score" \in combined_df.columns
           /\ "extraction_status" \in combined_df.columns
           /\ \E sorted \in sort_values(combined_df.rows) :
                output_csv' \in interrupted_writes(to_csv(assign_ranks(sorted)))
    /\ pc' = "killed"
    /\ profiles' = <<>>
    /\ enriched_profiles' = <<>>
    /\ next_profile' = 1
    /\ extract_log' = <<>>
    /\ enrich_log' = <<>>
    /\ pub_lookup' = <<>>
    /\ UNCHANGED <<scorer_vars, harness_vars, all_urls, run_no, test_mode, existing_df,
                   urls_to_process, batch_num, prior_output, prev_full_run>>

\* the states in which run() is over
Terminal == {"done", "crashed", "profile_error", "killed"}

\* the pipeline is started again with the same input CSV and output file
NewRun ==
    /\ pc \in Terminal
    /\ run_no < MaxRuns
    /\ run_no' = run_no + 1
    /\ prev_full_run' = (pc = "done" /\ ~test_mode)
    /\ pc' = "idle"
    /\ test_mode' = FALSE
    /\ existing_df' = EmptyDF
    /\ urls_to_process' = <<>>
    /\ batch_num' = 0
    /\ profiles' = <<>>
    /\ enriched_profiles' = <<>>
    /\ next_profile' = 1
    /\ prior_output' = <<>>
    /\ extract_log' = <<>>
    /\ enrich_log' = <<>>
    /\ pub_lookup' = <<>>
    /\ UNCHANGED <<scorer_vars, harness_vars, all_urls, output_csv>>

Next ==
    \/ RunStart
    \/ ExtractProfile
    \/ ProcessProfile
    \/ ProcessProfileRaises
    \/ Checkpoint
    \/ CheckpointKeyError
    \/ NewRun

Spec == Init /\ [][Next]_vars

\* the runs, with the process stopped from outside at any point of a batch
NextInterrupted ==
    \/ Next
    \/ Abort
    \/ CheckpointInterrupted

SpecInterrupted == Init /\ [][NextInterrupted]_vars

----
\* LinkedInExtractor.extract_profile(url, context, max_retries=3): the retry loop

\* max_retries, as extract_batch passes it
max_retries == 3

\* what one attempt ends with: json.loads gives the profile, json.loads raises
\* JSONDecodeError, or anything else in the try block raises
AttemptOutcomes ==
    {[ok |-> TRUE, error |-> "none", data |-> d] : d \in ExtractedProfiles}
    \cup {[ok |-> FALSE, error |-> e, data |-> <<>>] : e \in {"JSONDecodeError", "Exception"}}

\* the attempts in the trace
attempt_events(trace) == {i \in 1..Len(trace) : trace[i].ev = "attempt"}

\* the loop variable attempt (0, 1, ...) of the attempt made last
attempt_of(trace) == Cardinality(attempt_events(trace)) - 1

\* mutant of may_retry: there is always another attempt
may_retry_always(attempt) == TRUE

\* if attempt < max_retries - 1
may_retry(attempt) == attempt < max_retries - 1

\* extract_profile is to make an attempt: it was just called, or it has slept
at_attempt ==
    /\ extract_result = <<>>
    /\ IF extract_trace = <<>> THEN TRUE
       ELSE extract_trace[Len(extract_trace)].ev = "sleep"
    /\ Cardinality(attempt_events(extract_trace)) < max_retries

\* one pass of `for attempt in range(max_retries)`: the try block and, when it
\* raises, the except clause up to its sleep or its return
Attempt ==
    /\ at_attempt
    /\ \E outcome \in AttemptOutcomes :
        LET trace == Append(extract_trace, [ev |-> "attempt", outcome |-> outcome, seconds |-> 0])
        IN  /\ extract_trace' = trace
            /\ extract_result' =
                    IF outcome.ok
                    THEN <<extract_profile(extract_url, [ok |-> TRUE, data |-> outcome.data])>>
                    ELSE IF may_retry(attempt_of(trace)) THEN <<>>
                    ELSE <<extract_profile(extract_url, [ok |-> FALSE, data |-> <<>>])>>
    /\ UNCHANGED <<scorer_vars, run_vars, email_vars, parse_vars, aux_vars, extract_url>>

\* await asyncio.sleep(5 * (attempt + 1)); continue
SleepBeforeRetry ==
    /\ extract_result = <<>>
    /\ extract_trace # <<>>
    /\ extract_trace[Len(extract_trace)].ev = "attempt"
    /\ extract_trace' = Append(extract_trace,
            [ev |-> "sleep", outcome |-> <<>>,
             seconds |-> 5 * (attempt_of(extract_trace) + 1)])
    /\ UNCHANGED <<scorer_vars, run_vars, email_vars, parse_vars, aux_vars, extract_url,
                   extract_result>>

InitExtract ==
    /\ ScorerIdle
    /\ RunNotStarted
    /\ EmailIdle
    /\ ParseIdle
    /\ AuxIdle
    /\ extract_url \in 1..MaxUrls
    /\ extract_trace = <<>>
    /\ extract_result = <<>>

NextExtract == Attempt \/ SleepBeforeRetry

SpecExtract == InitExtract /\ [][NextExtract]_vars

----
\* EmailGenerator (enrichment_engine.py)

DIGITS == {"0", "1", "2", "3", "4", "5", "6", "7", "8", "9"}

\* [a-z]
is_letter(c) == \E i \in 1..Len(LOWER) : LOWER[i] = c

\* [a-z0-9]
is_alnum(c) == is_letter(c) \/ c \in DIGITS

\* \s, for the whitespace of the inputs
is_space(c) == c = " "

\* \w of a lower-cased text
is_word_char(c) == is_alnum(c) \/ c = "_"

\* str.split(): the maximal runs of characters that are not whitespace
token_starts(s) ==
    {i \in 1..Len(s) : ~is_space(s[i]) /\ (i = 1 \/ is_space(s[i - 1]))}

token_at(s, i) ==
    LET last == CHOOSE j \in i..Len(s) :
                    /\ \A k \in i..j : ~is_space(s[k])
                    /\ j = Len(s) \/ is_space(s[j + 1])
    IN  SubSeq(s, i, last)

split(s) ==
    [n \in 1..Cardinality(token_starts(s)) |->
        token_at(s, CHOOSE i \in token_starts(s) :
                        Cardinality({j \in token_starts(s) : j < i}) = n - 1)]

\* re.sub(r'[^a-z]', '', s)
letters_only(s) == SelectSeq(s, is_letter)

\* re.sub(r'[^a-z0-9]', '', s)
alnum_only(s) == SelectSeq(s, is_alnum)

\* inc|llc|ltd|corporation|corp|company|co
LEGAL_SUFFIXES ==
    << <<"i","n","c">>,
       <<"l","l","c">>,
       <<"l","t","d">>,
       <<"c","o","r","p","o","r","a","t","i","o","n">>,
       <<"c","o","r","p">>,
       <<"c","o","m","p","a","n","y">>,
       <<"c","o">> >>

\* \b after position j of s, s[j] being a word character
word_boundary_after(s, j) == j = Len(s) \/ ~is_word_char(s[j + 1])

\* where a match of \s+(inc|llc|ltd|corporation|corp|company|co)\b that starts
\* at the whitespace s[i] ends, 0 if there is none: \s+ takes the whitespace up
\* to the next other character, the alternatives are tried in order
suffix_match_end(s, i) ==
    LET word == CHOOSE m \in (i + 1)..(Len(s) + 1) :
                    /\ \A k \in i..(m - 1) : is_space(s[k])
                    /\ m = Len(s) + 1 \/ ~is_space(s[m])
        Matches(n) ==
            /\ word + Len(LEGAL_SUFFIXES[n]) - 1 <= Len(s)
            /\ SubSeq(s, word, word + Len(LEGAL_SUFFIXES[n]) - 1) = LEGAL_SUFFIXES[n]
            /\ word_boundary_after(s, word + Len(LEGAL_SUFFIXES[n]) - 1)
    IN  IF \E n \in 1..Len(LEGAL_SUFFIXES) : Matches(n)
        THEN LET n == CHOOSE n \in 1..Len(LEGAL_SUFFIXES) :
                        Matches(n) /\ \A k \in 1..(n - 1) : ~Matches(k)
             IN  word + Len(LEGAL_SUFFIXES[n]) - 1
        ELSE 0

\* re.sub(r'\s+(inc|llc|ltd|corporation|corp|company|co)\b', '', s), from
\* position i on: the matches are found from left to right and dropped
RECURSIVE sub_suffixes(_, _)
sub_suffixes(s, i) ==
    IF i > Len(s) THEN <<>>
    ELSE IF is_space(s[i]) /\ suffix_match_end(s, i) # 0
         THEN sub_suffixes(s, suffix_match_end(s, i) + 1)
         ELSE <<s[i]>> \o sub_suffixes(s, i + 1)

DOT_COM == <<".", "c", "o", "m">>

\* mutant of _infer_domain: the legal-entity suffixes stay
_infer_domain_keep_suffixes(company) ==
    LET company_clean == alnum_only(lower(company))
    IN  IF company_clean # <<>> THEN company_clean \o DOT_COM ELSE <<>>

\* EmailGenerator._infer_domain(company)
_infer_domain(company) ==
    LET company_clean == alnum_only(sub_suffixes(lower(company), 1))
    IN  IF company_clean # <<>> THEN company_clean \o DOT_COM ELSE <<>>

\* EmailGenerator.generate_email(name, company); <<>> is the empty string
generate_email(name, company) ==
    IF name = None \/ name = <<>> \/ company = None \/ company = <<>> THEN <<>>
    ELSE LET name_parts == split(lower(name))
         IN  IF Len(name_parts) < 2 THEN <<>>
             ELSE LET first == letters_only(name_parts[1])
                      last == letters_only(name_parts[Len(name_parts)])
                      domain == _infer_domain(company)
                  IN  IF first # <<>> /\ last # <<>> /\ domain # <<>>
                      THEN first \o <<".">> \o last \o <<"@">> \o domain
                      ELSE <<>>

\* None, "", "Jane", "Jane Doe", "  jane   van  DOE ", "Dr. O'Neil-Smith", "Jane 42", "J4ne D0e"
EmailNames ==
    { None,
      <<>>,
      <<"J","a","n","e">>,
      <<"J","a","n","e"," ","D","o","e">>,
      <<" "," ","j","a","n","e"," "," "," ","v","a","n"," "," ","D","O","E"," ">>,
      <<"D","r","."," ","O","'","N","e","i","l","-","S","m","i","t","h">>,
      <<"J","a","n","e"," ","4","2">>,
      <<"J","4","n","e"," ","D","0","e">> }

\* None, "", "Acme Therapeutics Inc", "ACME, Inc.", "Acme Co Labs", "Inc", "!!!", "3M Company", "Acme,Inc"
EmailCompanies ==
    { None,
      <<>>,
      <<"A","c","m","e"," ","T","h","e","r","a","p","e","u","t","i","c","s"," ","I","n","c">>,
      <<"A","C","M","E",","," ","I","n","c",".">>,
      <<"A","c","m","e"," ","C","o"," ","L","a","b","s">>,
      <<"I","n","c">>,
      <<"!","!","!">>,
      <<"3","M"," ","C","o","m","p","a","n","y">>,
      <<"A","c","m","e",",","I","n","c">> }

InitEmail ==
    /\ ScorerIdle
    /\ RunNotStarted
    /\ ExtractIdle
    /\ ParseIdle
    /\ AuxIdle
    /\ email_call \in [name : EmailNames, company : EmailCompanies]
    /\ email_result = <<>>

CallGenerateEmail ==
    /\ email_result = <<>>
    /\ email_result' = <<generate_email(email_call.name, email_call.company)>>
    /\ UNCHANGED <<scorer_vars, run_vars, extract_vars, parse_vars, aux_vars, email_call>>

NextEmail == CallGenerateEmail

SpecEmail == InitEmail /\ [][NextEmail]_vars

----
\* AlternativePipeline._parse_pubmed_xml (alternative_pipeline.py)

\* number of PubmedArticle entries in the XML
MaxArticles == 2

\* number of Author elements in the AuthorList of an entry
MaxAuthors == 2

\* the elements of the set S of numbers, in increasing order
sorted_seq(S) ==
    [n \in 1..Cardinality(S) |-> CHOOSE x \in S : Cardinality({y \in S : y < x}) = n - 1]

\* str.split(',')
split_comma(s) ==
    LET cuts == sorted_seq({0, Len(s) + 1} \cup {i \in 1..Len(s) : s[i] = ","})
    IN  [n \in 1..(Len(cuts) - 1) |-> SubSeq(s, cuts[n] + 1, cuts[n + 1] - 1)]

\* str.strip(), for the whitespace of the inputs
strip(s) ==
    LET inked == {i \in 1..Len(s) : ~is_space(s[i])}
    IN  IF inked = {} THEN <<>>
        ELSE SubSeq(s, CHOOSE i \in inked : \A j \in inked : i <= j,
                       CHOOSE i \in inked : \A j \in inked : i >= j)

DEPARTMENT_OF == <<"D","e","p","a","r","t","m","e","n","t"," ","o","f">>

\* str.replace(old, ""), from position i on
RECURSIVE remove_all(_, _, _)
remove_all(s, old, i) ==
    IF i > Len(s) THEN <<>>
    ELSE IF i + Len(old) - 1 <= Len(s) /\ SubSeq(s, i, i + Len(old) - 1) = old
         THEN remove_all(s, old, i + Len(old))
         ELSE <<s[i]>> \o remove_all(s, old, i + 1)

\* ", ".join(parts)
RECURSIVE join_comma(_)
join_comma(parts) ==
    IF parts = <<>> THEN <<>>
    ELSE IF Len(parts) = 1 THEN parts[1]
    ELSE parts[1] \o <<",", " ">> \o join_comma(Tail(parts))

\* AlternativePipeline._extract_institution(affiliation)
_extract_institution(affiliation) ==
    IF affiliation = <<>> THEN <<>>
    ELSE LET institution == strip(remove_all(strip(split_comma(affiliation)[1]),
                                             DEPARTMENT_OF, 1))
         IN  SubSeq(institution, 1, min(100, Len(institution)))

\* AlternativePipeline._extract_location(affiliation)
_extract_location(affiliation) ==
    IF affiliation = <<>> THEN <<>>
    ELSE LET parts == [n \in 1..Len(split_comma(affiliation)) |->
                            strip(split_comma(affiliation)[n])]
         IN  IF Len(parts) >= 2
             THEN join_comma(SubSeq(parts, Len(parts) - 1, Len(parts)))
             ELSE <<>>

\* the place of a digit in the order of the characters
digit_rank(c) == CHOOSE n \in 0..9 : <<"0", "1", "2", "3", "4", "5", "6", "7", "8", "9">>[n + 1] = c

\* a > b on strings of digits: the order of the first characters that differ,
\* a longer string being greater than its prefix
str_gt(a, b) ==
    \E k \in 1..Len(a) :
        /\ \A j \in 1..(k - 1) : j <= Len(b) /\ a[j] = b[j]
        /\ IF k > Len(b) THEN TRUE ELSE digit_rank(a[k]) > digit_rank(b[k])

\* f"{fore_name.text} {last_name.text}"
full_name(author) == join_space(author.fore_name, author.last_name)

\* where authors_dict holds the record of the name, 0 if nowhere
record_index(dict, name) ==
    IF \E i \in 1..Len(dict) : dict[i].name = name
    THEN CHOOSE i \in 1..Len(dict) : dict[i].name = name
    ELSE 0

\* the body of `for author in author_list.findall("Author")`
parse_author(dict, year, author) ==
    IF author.last_name = None \/ author.fore_name = None THEN dict
    ELSE LET affiliation_text == author.affiliation
             company == _extract_institution(affiliation_text)
             location == _extract_location(affiliation_text)
             added == IF record_index(dict, full_name(author)) = 0
                      THEN Append(dict, [name |-> full_name(author),
                                         company |-> company,
                                         location |-> location,
                                         affiliation |-> affiliation_text,
                                         publication_count |-> 0,
                                         recent_year |-> year])
                      ELSE dict
             i == record_index(added, full_name(author))
             counted == [added EXCEPT ![i].publication_count = @ + 1]
         IN  IF /\ year # <<>>
                /\ IF counted[i].recent_year = <<>> THEN TRUE
                   ELSE str_gt(year, counted[i].recent_year)
             THEN [counted EXCEPT ![i].company = company,
                                  ![i].location = location,
                                  ![i].affiliation = affiliation_text,
                                  ![i].recent_year = year]
             ELSE counted

\* the authors of an entry, from the k-th on
RECURSIVE parse_authors(_, _, _, _)
parse_authors(dict, year, author_list, k) ==
    IF k > Len(author_list) THEN dict
    ELSE parse_authors(parse_author(dict, year, author_list[k]), year, author_list, k + 1)

\* "", "2019", "2024": the text of PubDate/Year, "" without it
Years == { <<>>, <<"2","0","1","9">>, <<"2","0","2","4">> }

\* "", "Department of Toxicology, Pfizer, Groton, USA", "Roche"
Affiliations ==
    { <<>>,
      <<"D","e","p","a","r","t","m","e","n","t"," ","o","f"," ","T","o","x","i","c","o","l","o","g","y",","," ","P","f","i","z","e","r",","," ","G","r","o","t","o","n",","," ","U","S","A">>,
      <<"R","o","c","h","e">> }

\* the Author elements: Wei Wang and Ana Ruiz, with an affiliation or none,
\* and an author without a LastName (a collective name)
Authors ==
    {[fore_name |-> f[1], last_name |-> f[2], affiliation |-> a] :
        f \in { <<<<"W","e","i">>, <<"W","a","n","g">>>>, <<<<"A","n","a">>, <<"R","u","i","z">>>> }, a \in Affiliations}
    \cup {[fore_name |-> <<"C","o","n","s","o","r","t","i","u","m">>, last_name |-> None, affiliation |-> <<>>]}

\* the PubmedArticle entries; one without AuthorList has no authors
Articles ==
    [year : Years, authors : UNION {[1..n -> Authors] : n \in 0..MaxAuthors}]

InitParse ==
    /\ ScorerIdle
    /\ RunNotStarted
    /\ EmailIdle
    /\ ExtractIdle
    /\ AuxIdle
    /\ articles \in UNION {[1..n -> Articles] : n \in 1..MaxArticles}
    /\ article_idx = 0
    /\ authors_dict = <<>>

\* one pass of `for article in root.findall(".//PubmedArticle")`
ParseArticle ==
    /\ article_idx < Len(articles)
    /\ article_idx' = article_idx + 1
    /\ authors_dict' = parse_authors(authors_dict, articles[article_idx + 1].year,
                                     articles[article_idx + 1].authors, 1)
    /\ UNCHANGED <<scorer_vars, run_vars, email_vars, extract_vars, aux_vars, articles>>

NextParse == ParseArticle

SpecParse == InitParse /\ [][NextParse]_vars

----
\* Properties of the scorer (checked under SpecScore)

\* the result of the calculate_score call of the harness
result == score_result[1]

\* C1: for every profile for which passes_threshold returns false,
\* calculate_score returns probability_score exactly 0 and evaluates none of
\* the six sub-scores.
C1_FailingProfileScoresZero ==
    (threshold_result = <<FALSE>> /\ score_result # <<>>)
        => /\ result.probability_score = 0
           /\ result.evaluated = {}

C1_Witness == threshold_result = <<FALSE>> /\ score_result # <<>>

\* C2: for every profile that passes the threshold, probability_score is the
\* sum, rounded to one decimal, of the six sub-scores (each in [0,1]) times
\* the weights 30, 20, 15, 10, 10, 40.  (Sub-scores in thirtieths, the score
\* in tenths of a point: the rounded sum is the nearest integer to sum / 3.)
C2_PassingScoreIsWeightedSum ==
    (threshold_result = <<TRUE>> /\ score_result # <<>>)
        => LET role == _score_role(profile.title, profile.about)
               funding == _score_funding(profile.funding_stage)
               tech == _score_tech_adoption(profile.about, profile.skills)
               nam == _score_nam_openness(profile.about, profile.skills)
               hub == _score_location(profile.is_biotech_hub)
               pubs == _score_publications(profile.publication_count,
                                           profile.has_recent_pubs)
               total == role * 30 + funding * 20 + tech * 15
                            + nam * 10 + hub * 10 + pubs * 40
           IN  /\ {role, funding, tech, nam, hub, pubs} \subseteq 0..One
               /\ 3 * result.probability_score - 1 <= total
               /\ total <= 3 * result.probability_score + 1

C2_Witness ==
    /\ threshold_result = <<TRUE>>
    /\ score_result # <<>>
    /\ result.score_breakdown.kind = "map"
    /\ result.score_breakdown.map.tech_adoption > 0
    /\ result.score_breakdown.map.recent_publications > 0

\* C3 (as claimed): for every profile the probability_score returned by
\* calculate_score lies in 0..100 inclusive (0..1000 tenths).
C3_ScoreWithin0To100 ==
    score_result # <<>>
        => (0 <= result.probability_score /\ result.probability_score <= 1000)

\* C4 (as claimed): for every result of calculate_score, passing or failing,
\* score_breakdown is a mapping whose keys are exactly the six factor names
\* and whose values sum to probability_score.
C4_BreakdownAlwaysMapping ==
    score_result # <<>>
        => /\ result.score_breakdown.kind = "map"
           /\ DOMAIN result.score_breakdown.map = FACTORS
           /\ LET m == result.score_breakdown.map
              IN  m.role_relevance + m.funding_stage + m.tech_adoption
                      + m.nam_openness + m.biotech_hub + m.recent_publications
                  = 3 * result.probability_score

\* C4 (amended): for a profile that passes the threshold score_breakdown is a
\* mapping whose keys are exactly the six factor names and whose values sum
\* to probability_score; for a profile that fails it, score_breakdown is the
\* explanatory text and probability_score is 0.
C4_BreakdownMappingWhenPassing ==
    /\ (threshold_result = <<TRUE>> /\ score_result # <<>>)
        => /\ result.score_breakdown.kind = "map"
           /\ DOMAIN result.score_breakdown.map = FACTORS
           /\ LET m == result.score_breakdown.map
              IN  m.role_relevance + m.funding_stage + m.tech_adoption
                      + m.nam_openness + m.biotech_hub + m.recent_publications
                  = 3 * result.probability_score
    /\ (threshold_result = <<FALSE>> /\ score_result # <<>>)
        => /\ result.score_breakdown.kind = "text"
           /\ result.probability_score = 0

C4_Witness ==
    /\ threshold_result = <<TRUE>>
    /\ score_result # <<>>
    /\ result.probability_score > 1000

\* the eight domain keywords as the claim lists them
C5_Keywords ==
    { <<"t","o","x","i","c","o","l","o","g","y">>,
      <<"t","o","x","i","c","o","l","o","g","i","s","t">>,
      <<"s","a","f","e","t","y"," ","a","s","s","e","s","s","m","e","n","t">>,
      <<"p","r","e","c","l","i","n","i","c","a","l">>,
      <<"h","e","p","a","t","i","c">>,
      <<"i","n","v","e","s","t","i","g","a","t","i","v","e">>,
      <<"d","i","l","i">>,
      <<"l","i","v","e","r">> }

\* kw occurs in text at some position, letter case ignored
C5_Occurs(text, kw) ==
    \E i \in 1..(Len(text) - Len(kw) + 1) :
        \A j \in 1..Len(kw) : lower_char(text[i + j - 1]) = kw[j]

\* C5: passes_threshold(profile) is true iff the lower-cased title or the
\* lower-cased about text contains one of the eight domain keywords as a
\* substring.  The harness ranges over every combination of the other fields,
\* so the result being this function of title and about is also the statement
\* that no other field influences it.
C5_ThresholdIffDomainKeyword ==
    threshold_result # <<>>
        => (threshold_result[1]
                <=> \E kw \in C5_Keywords :
                        C5_Occurs(profile.title, kw) \/ C5_Occurs(profile.about, kw))

C5_Witness ==
    /\ threshold_result = <<TRUE>>
    /\ ~(\E kw \in C5_Keywords : C5_Occurs(profile.title, kw))
    /\ profile.skills # <<>>

----
\* Properties of the pipeline (checked under Spec)

\* the rows of the output file
file_rows == output_csv.rows

\* the rows of the output file that come from a successful extraction and
\* have a positive score
file_scored == {i \in 1..Len(file_rows) :
                    file_rows[i].origin = "success" /\ file_rows[i].probability_score > 0}

\* C6: in every output written by run(), after any number of batches and
\* runs, a record has rank > 0 only if its extraction succeeded and its
\* probability_score > 0; every failed-extraction placeholder has rank 0.
C6_RankOnlyForScoredSuccess ==
    \A i \in 1..Len(file_rows) :
        /\ file_rows[i].rank > 0
            => (file_rows[i].origin = "success" /\ file_rows[i].probability_score > 0)
        /\ file_rows[i].origin = "failed" => file_rows[i].rank = 0

C6_Witness ==
    /\ run_no = 2
    /\ pc = "done"
    /\ extract_log # <<>>
    /\ \E i, j \in 1..Len(file_rows) :
        file_rows[i].rank > 0 /\ file_rows[j].origin = "failed"

\* C7 (as claimed): after every checkpoint the successfully extracted records
\* with probability_score > 0 in the file, those of this run and those
\* reloaded from an earlier run, carry the ranks 1..k, each exactly once, in
\* order of non-increasing probability_score.
C7_ScoredRecordsRanked1ToK ==
    /\ {file_rows[i].rank : i \in file_scored} = 1..Cardinality(file_scored)
    /\ \A i, j \in file_scored :
        file_rows[i].rank < file_rows[j].rank
            => file_rows[i].probability_score >= file_rows[j].probability_score

\* the position of a URL that occurs once in the input list
input_position(url) == CHOOSE k \in 1..Len(all_urls) : all_urls[k] = url

occurs_once(url) == Cardinality({k \in 1..Len(all_urls) : all_urls[k] = url}) = 1

\* C8 (as claimed): ranked records with equal probability_score are ranked in
\* their original order: the one that came earlier in the input gets the
\* smaller rank.
C8_TiesKeepInputOrder ==
    \A i, j \in 1..Len(file_rows) :
        (/\ file_rows[i].rank > 0
         /\ file_rows[j].rank > 0
         /\ file_rows[i].probability_score = file_rows[j].probability_score
         /\ occurs_once(file_rows[i].linkedin_url)
         /\ occurs_once(file_rows[j].linkedin_url)
         /\ input_position(file_rows[i].linkedin_url)
                < input_position(file_rows[j].linkedin_url))
            => file_rows[i].rank < file_rows[j].rank

\* C9 (as claimed): after a run has completed over the input list, a second
\* run with the same input and output file extracts nothing, whatever the
\* outcome of each URL in the first run.
C9_SecondRunExtractsNothing ==
    (run_no >= 2 /\ prev_full_run) => extract_log = <<>>

\* the URLs in the linkedin_url column of the output the run loaded
prior_urls == {prior_output[i].linkedin_url : i \in 1..Len(prior_output)}

\* C10: no URL of the linkedin_url column of the prior output is extracted or
\* enriched during the run, and the work queue is filtered before the first
\* extraction: whatever is extracted comes from the filtered queue.
C10_PriorUrlsNotProcessedAgain ==
    /\ \A i \in 1..Len(urls_to_process) : urls_to_process[i] \notin prior_urls
    /\ \A i \in 1..Len(extract_log) :
        /\ extract_log[i] \notin prior_urls
        /\ \E k \in 1..Len(urls_to_process) : urls_to_process[k] = extract_log[i]
    /\ \A i \in 1..Len(enrich_log) : enrich_log[i] \notin prior_urls

C10_Witness ==
    /\ run_no >= 2
    /\ prior_output # <<>>
    /\ Len(all_urls) > Len(urls_to_process)
    /\ enrich_log # <<>>

----
\* Properties of a run that is stopped (checked under SpecInterrupted)

\* what a record is, whatever its rank
record_of(row) == <<row.linkedin_url, row.probability_score, row.origin>>

\* how many rows hold the record r
record_count(rows, r) == Cardinality({i \in 1..Len(rows) : record_of(rows[i]) = r})

\* the run ended without finishing the batch loop while batch_num + 1 was
\* being processed
aborted == pc \in Terminal \ {"done"}

\* C11 (as claimed): when the run is aborted at any point of batch n, the
\* output file holds every record of the prior output and of the batches
\* 1..n-1 this run completed, which are the records of the frame the run
\* saved last.
C11_AbortLosesOneBatchAtMost ==
    aborted =>
        \A i \in 1..Len(existing_df.rows) :
            record_count(file_rows, record_of(existing_df.rows[i]))
                >= record_count(existing_df.rows, record_of(existing_df.rows[i]))

\* C12 (as claimed): when the write of a checkpoint fails or the process stops
\* during it, the output holds the complete previous checkpoint: the rows the
\* run saved or loaded last, and a readable file if there was one.
C12_CheckpointAllOrNothing ==
    pc = "killed" =>
        /\ file_rows = to_csv(existing_df.rows)
        /\ (existing_df.columns # {}) => output_csv.state = "ok"

\* C13 (as claimed): no error raised while a profile is processed, whatever
\* the extracted field values (null title or about included), leaves
\* process_batch and ends the run.
C13_ProfileErrorNeverEndsRun ==
    pc # "profile_error"

----
\* Properties of the per-profile steps of process_batch (checked under Spec)

\* the names search_publications is called with
AuthorNames == {d.name : d \in ExtractedProfiles} \cup {<<>>, None}

\* what C14 says of one call of search_publications
lookup_as_claimed(answer, pub_data) ==
    /\ pub_data.publication_count \in 0..RETMAX
    /\ pub_data.has_recent_pubs = (pub_data.publication_count > 0)
    /\ (answer.error # "none" \/ answer.ids = 0)
            => (pub_data.publication_count = 0 /\ ~pub_data.has_recent_pubs)

\* search_publications on every name and every answer
every_lookup_as_claimed ==
    \A author_name \in AuthorNames, answer \in PubMedResponses :
        lookup_as_claimed(answer, search_publications(author_name, answer))

extraction_failed(p) == p.extraction_status # "success"

\* row is the placeholder record of url
is_placeholder(row, url) ==
    /\ row.linkedin_url = url
    /\ row.probability_score = 0
    /\ row.rank = 0
    /\ row.origin = "failed"

\* C15 (as claimed): every failed extraction gives one placeholder record
\* (probability_score 0, rank 0, the URL as linkedin_url) in the batch result,
\* without a call of an enricher or the scorer for it, and the failure is not
\* fatal: when run() is over, the placeholder of each failed extraction of the
\* batch it extracted last is in the output file.
C15_FailedExtractionGivesPlaceholder ==
    /\ pc \in {"enrich", "checkpoint"} =>
        \A i \in 1..(next_profile - 1) :
            extraction_failed(profiles[i]) =>
                /\ \E k \in 1..Len(enriched_profiles) :
                    is_placeholder(enriched_profiles[k], profiles[i].linkedin_url)
                /\ (pub_lookup # <<>> => pub_lookup[1].index # i)
    /\ pc \in Terminal \ {"killed"} =>
        \A i \in 1..Len(profiles) :
            extraction_failed(profiles[i]) =>
                \E k \in 1..Len(file_rows) :
                    is_placeholder(file_rows[k], profiles[i].linkedin_url)

\* the profiles of the batch process_batch has been through, without those
\* the threshold rejected
kept(i) ==
    extraction_failed(profiles[i]) \/ profile_passes(profiles[i])

kept_profiles ==
    LET Kept(i) == kept(i)
    IN  SelectSeq([i \in 1..(next_profile - 1) |-> i], Kept)

\* C16: a successfully extracted profile that fails passes_threshold is not
\* enriched or scored and gets no record: the batch result holds, in order,
\* one record for each profile that failed extraction or passed the gate and
\* none for the others, every publication lookup is for a profile that passed
\* the gate, and every record of a successful extraction, in the batch result
\* and in the output, has a score above 0 (a rejected profile would score 0).
C16_ThresholdGatePrecedesEnrichment ==
    /\ pc \in {"enrich", "checkpoint"} =>
        /\ Len(enriched_profiles) = Len(kept_profiles)
        /\ \A k \in 1..Len(kept_profiles) :
            /\ enriched_profiles[k].linkedin_url = profiles[kept_profiles[k]].linkedin_url
            /\ enriched_profiles[k].extraction_status
                    = profiles[kept_profiles[k]].extraction_status
        /\ pub_lookup # <<>> => profile_passes(profiles[pub_lookup[1].index])
        /\ \A k \in 1..Len(enriched_profiles) :
            enriched_profiles[k].origin = "success"
                => enriched_profiles[k].probability_score > 0
    /\ \A k \in 1..Len(file_rows) :
        file_rows[k].origin = "success" => file_rows[k].probability_score > 0

\* a batch in which one profile was rejected by the gate and another one was
\* enriched has been processed, and the run has saved it
C16_Witness ==
    /\ pc = "done"
    /\ Len(extract_log) > Len(file_rows)
    /\ enrich_log # <<>>
    /\ prior_output = <<>>
    /\ \E k \in 1..Len(file_rows) : file_rows[k].origin = "success"

\* C17 (as claimed): a threshold rejection is never an error: whatever the
\* batch, a batch in which every extracted profile is rejected included, the
\* run sorts, ranks and saves without raising.
C17_RejectedBatchNeverRaises ==
    pc # "crashed"

----
\* Properties of extract_profile (checked under SpecExtract)

\* extract_profile has returned
returned == extract_result # <<>>

\* the attempt or wait made last
last_event == extract_trace[Len(extract_trace)]

\* C18: extract_profile makes at most max_retries attempts; it waits after a
\* failed attempt that is followed by another attempt and at no other time, so
\* never after the last attempt; it returns at the first successful attempt,
\* with that attempt's profile and extraction_status 'success'; after
\* max_retries failed attempts, whatever the errors, it returns a record with
\* extraction_status 'failed' for the URL; and every attempt ends in a wait or
\* a return, none in an exception that leaves extract_profile.
C18_ExtractProfileRetries ==
    /\ Cardinality(attempt_events(extract_trace)) <= max_retries
    /\ \A i \in 1..Len(extract_trace) :
        /\ extract_trace[i].ev = "sleep" =>
            /\ i > 1
            /\ extract_trace[i - 1].ev = "attempt"
            /\ ~extract_trace[i - 1].outcome.ok
            /\ Cardinality(attempt_events(SubSeq(extract_trace, 1, i))) < max_retries
            /\ i < Len(extract_trace) => extract_trace[i + 1].ev = "attempt"
        /\ (extract_trace[i].ev = "attempt" /\ i > 1) => extract_trace[i - 1].ev = "sleep"
        /\ (extract_trace[i].ev = "attempt" /\ extract_trace[i].outcome.ok) =>
            i = Len(extract_trace)
    /\ returned =>
        /\ last_event.ev = "attempt"
        /\ extract_result[1].linkedin_url = extract_url
        /\ last_event.outcome.ok =>
            /\ extract_result[1].extraction_status = "success"
            /\ profile_data(extract_result[1]) = last_event.outcome.data
        /\ ~last_event.outcome.ok =>
            /\ extract_result[1].extraction_status = "failed"
            /\ Cardinality(attempt_events(extract_trace)) = max_retries
    /\ ~returned =>
        /\ Cardinality(attempt_events(extract_trace)) < max_retries
        /\ \A i \in attempt_events(extract_trace) : ~extract_trace[i].outcome.ok

\* max_retries attempts failed, with a wait between them, and extract_profile
\* returned the failed record
C18_Witness ==
    /\ returned
    /\ extract_result[1].extraction_status = "failed"
    /\ Len(extract_trace) = 2 * max_retries - 1
    /\ extract_trace[1].outcome.error = "JSONDecodeError"
    /\ extract_trace[3].outcome.error = "Exception"

----
\* Properties of generate_email (checked under SpecEmail)

\* a name or company as text: None and the empty string have no characters
text_of(x) == IF x = None THEN <<>> ELSE x

\* the positions of s taken by a legal-entity suffix: whitespace, then one of
\* the suffix words, then the end of the word
suffix_positions(s) ==
    {k \in 1..Len(s) :
        \E i \in 1..k, m \in 1..Len(s), n \in 1..Len(LEGAL_SUFFIXES) :
            /\ i <= m
            /\ \A x \in i..m : is_space(s[x])
            /\ m + Len(LEGAL_SUFFIXES[n]) <= Len(s)
            /\ SubSeq(s, m + 1, m + Len(LEGAL_SUFFIXES[n])) = LEGAL_SUFFIXES[n]
            /\ word_boundary_after(s, m + Len(LEGAL_SUFFIXES[n]))
            /\ k <= m + Len(LEGAL_SUFFIXES[n])}

\* the lower-cased company without its legal-entity suffixes and without its
\* non-alphanumeric characters
domain_name(company) ==
    LET s == lower(text_of(company))
        Stays(k) == k \notin suffix_positions(s) /\ is_alnum(s[k])
        stay == SelectSeq([k \in 1..Len(s) |-> k], Stays)
    IN  [n \in 1..Len(stay) |-> s[stay[n]]]

\* the lower-cased first and last token of the name, letters only
first_name(name) == letters_only(lower(split(text_of(name))[1]))

last_name(name) ==
    letters_only(lower(split(text_of(name))[Len(split(text_of(name)))]))

address(name, company) ==
    first_name(name) \o <<".">> \o last_name(name) \o <<"@">>
        \o domain_name(company) \o DOT_COM

\* the email as C19 states it
email_as_claimed(name, company) ==
    IF Len(split(text_of(name))) < 2 \/ domain_name(company) = <<>>
    THEN <<>>
    ELSE address(name, company)

\* the email with the third case in which the code returns the empty string
email_as_amended(name, company) ==
    IF \/ Len(split(text_of(name))) < 2
       \/ domain_name(company) = <<>>
       \/ first_name(name) = <<>>
       \/ last_name(name) = <<>>
    THEN <<>>
    ELSE address(name, company)

\* C19 (as claimed): generate_email returns the empty string when the name has
\* fewer than two whitespace-separated tokens or the company yields no domain,
\* and otherwise first.last@domain.com built from the lower-cased first and
\* last token without their non-alphabetic characters and the lower-cased
\* company without legal-entity suffixes and non-alphanumeric characters.
C19_EmailAsClaimed ==
    email_result # <<>> =>
        email_result[1] = email_as_claimed(email_call.name, email_call.company)

\* C19 (amended): as claimed, except that generate_email also returns the
\* empty string when the first or the last token of the name has no letter
\* a-z; "Jane Doe" at "Acme Therapeutics Inc" gives
\* jane.doe@acmetherapeutics.com.
C19_EmailAsAmended ==
    email_result # <<>> =>
        /\ email_result[1] = email_as_amended(email_call.name, email_call.company)
        /\ (/\ email_call.name = <<"J","a","n","e"," ","D","o","e">>
            /\ email_call.company = <<"A","c","m","e"," ","T","h","e","r","a","p","e","u","t","i","c","s"," ","I","n","c">>)
                => email_result[1] = <<"j","a","n","e",".","d","o","e","@","a","c","m","e","t","h","e","r","a","p","e","u","t","i","c","s",".","c","o","m">>

\* generate_email has returned the empty string for a name of two tokens, the
\* last without a letter, and a company with a domain
C19_Witness ==
    /\ email_result = << <<>> >>
    /\ email_call.name # None
    /\ Len(split(email_call.name)) = 2
    /\ first_name(email_call.name) # <<>>
    /\ last_name(email_call.name) = <<>>
    /\ domain_name(email_call.company) # <<>>

----
\* Properties of _parse_pubmed_xml (checked under SpecParse)

\* the author element has a name
named(author) == author.last_name # None /\ author.fore_name # None

\* the entries consumed so far that list the name
entries_listing(name) ==
    {e \in 1..article_idx :
        \E k \in 1..Len(articles[e].authors) :
            named(articles[e].authors[k]) /\ full_name(articles[e].authors[k]) = name}

\* the names the entries consumed so far list
names_listed ==
    UNION {{full_name(articles[e].authors[k]) :
                k \in {j \in 1..Len(articles[e].authors) : named(articles[e].authors[j])}} :
            e \in 1..article_idx}

\* the year as a number, 0 without a year
RECURSIVE year_number(_)
year_number(year) ==
    IF year = <<>> THEN 0
    ELSE 10 * year_number(SubSeq(year, 1, Len(year) - 1)) + digit_rank(year[Len(year)])

\* the entry with the greatest year among those listing the name, the
\* earliest of them on a tie
newest_entry(name) ==
    CHOOSE e \in entries_listing(name) :
        \A f \in entries_listing(name) :
            \/ year_number(articles[e].year) > year_number(articles[f].year)
            \/ /\ year_number(articles[e].year) = year_number(articles[f].year)
               /\ e <= f

\* the affiliations the entry gives for the name
affiliations_in(e, name) ==
    {articles[e].authors[k].affiliation :
        k \in {j \in 1..Len(articles[e].authors) :
                named(articles[e].authors[j]) /\ full_name(articles[e].authors[j]) = name}}

\* C20 (as claimed): after any sequence of entries has been consumed, each
\* name listed has exactly one record in authors_dict and there is no other
\* record; the record's publication_count is the number of entries listing
\* the name; and its affiliation, company and location are those of the entry
\* with the greatest year among them, the earliest one on a tie.
C20_OneRecordPerAuthor ==
    /\ {authors_dict[i].name : i \in 1..Len(authors_dict)} = names_listed
    /\ \A i, j \in 1..Len(authors_dict) :
        authors_dict[i].name = authors_dict[j].name => i = j
    /\ \A i \in 1..Len(authors_dict) :
        /\ authors_dict[i].publication_count
                = Cardinality(entries_listing(authors_dict[i].name))
        /\ authors_dict[i].affiliation
                \in affiliations_in(newest_entry(authors_dict[i].name), authors_dict[i].name)
        /\ authors_dict[i].company = _extract_institution(authors_dict[i].affiliation)
        /\ authors_dict[i].location = _extract_location(authors_dict[i].affiliation)

----
\* Properties of _score_role (checked under SpecScore)

\* some phrase of kws occurs in text, letter case ignored
occurs_any(text, kws) == \E kw \in kws : C5_Occurs(text, kw)

\* the phrases of a keyword list
phrases(kws) == {kws[i] : i \in 1..Len(kws)}

\* the role sub-score as C23 states it, in thirtieths
role_as_claimed(title, about) ==
    IF occurs_any(title, TARGET_ROLES) THEN One
    ELSE IF ~(occurs_any(title, C5_Keywords) \/ occurs_any(about, C5_Keywords)) THEN 0
    ELSE IF occurs_any(title, phrases(ROLE_KEYWORDS_high)) THEN One
    ELSE IF occurs_any(title, phrases(ROLE_KEYWORDS_medium)) THEN 18
    ELSE IF occurs_any(title, phrases(ROLE_KEYWORDS_low)) THEN 9
    ELSE 15

\* _score_role on the titles and about texts of the corpus
role_scores == [title \in Titles, about \in Abouts |-> _score_role(title, about)]

\* what C23 states for them
claimed_role_scores == [title \in Titles, about \in Abouts |-> role_as_claimed(title, about)]

\* C23: _score_role(title, about) is 1.0 if the title contains a target-role
\* phrase; else 0.0 if neither title nor about contains a domain keyword; else
\* 1.0, 0.6 or 0.3 for the first seniority tier (high, medium, low) with a
\* keyword in the title; else 0.5.  The role_relevance entry of a breakdown
\* is that value times 30.
C23_ScoreRoleTiers ==
    /\ role_scores[profile.title, profile.about]
            = claimed_role_scores[profile.title, profile.about]
    /\ (score_result # <<>> /\ result.score_breakdown.kind = "map")
        => result.score_breakdown.map.role_relevance
                = claimed_role_scores[profile.title, profile.about] * 30

\* a scored profile whose title has a keyword of the high and of the medium
\* tier and no target-role phrase
C23_Witness ==
    /\ score_result # <<>>
    /\ result.score_breakdown.kind = "map"
    /\ ~occurs_any(profile.title, TARGET_ROLES)
    /\ occurs_any(profile.title, phrases(ROLE_KEYWORDS_high))
    /\ occurs_any(profile.title, phrases(ROLE_KEYWORDS_medium))
    /\ result.score_breakdown.map.role_relevance = One * 30

----
\* Range of the score of a passing profile (checked under SpecScore)

\* the record process_batch appends for the profile of the harness once it
\* has been extracted, enriched and scored
appended_record ==
    [rank |-> 0, probability_score |-> result.probability_score, linkedin_url |-> 1,
     extraction_status |-> "success", origin |-> "success"]

\* C27: every profile that passes the threshold gets a probability_score of
\* at least 15 and at most 125, with a role sub-score of at least 0.3 and a
\* funding sub-score of at least 0.3; so probability_score > 0 exactly when the
\* profile passes the threshold, and the record process_batch appends for a
\* passing profile satisfies scored_mask.
C27_PassingScoreWithin15To125 ==
    (threshold_result # <<>> /\ score_result # <<>>) =>
        /\ threshold_result[1] =>
            /\ 150 <= result.probability_score
            /\ result.probability_score <= 1250
            /\ result.score_breakdown.map.role_relevance >= 9 * WEIGHTS.role_relevance
            /\ result.score_breakdown.map.funding_stage >= 9 * WEIGHTS.funding_stage
            /\ scored_mask(appended_record)
        /\ (result.probability_score > 0) <=> threshold_result[1]

\* a passing profile with the lowest score there is
C27_Witness ==
    /\ threshold_result = <<TRUE>>
    /\ score_result # <<>>
    /\ result.probability_score = 150

----
\* The role sub-score and the threshold (checked under SpecScore)

\* every target-role phrase contains a domain keyword
target_roles_in_domain ==
    \A target \in TARGET_ROLES : any_in(RELEVANT_DOMAINS, target)

\* C28: for every title and about text _score_role(title, about) is 0.0
\* exactly when passes_threshold fails, because every target-role phrase
\* contains a domain keyword; so the role sub-score computed inside
\* calculate_score is never 0.0.
C28_RoleZeroIffThresholdFails ==
    /\ target_roles_in_domain
    /\ threshold_result # <<>>
        => ((role_scores[profile.title, profile.about] = 0) <=> ~threshold_result[1])
    /\ (score_result # <<>> /\ result.score_breakdown.kind = "map")
        => result.score_breakdown.map.role_relevance > 0

\* a profile that passes by a target-role phrase in its title alone has been
\* scored, and one without a domain keyword has role sub-score 0.0
C28_Witness ==
    /\ threshold_result = <<TRUE>>
    /\ score_result # <<>>
    /\ profile.about = <<>>
    /\ occurs_any(profile.title, TARGET_ROLES)
    /\ result.score_breakdown.map.role_relevance = One * WEIGHTS.role_relevance
    /\ \E title \in Titles : role_scores[title, profile.about] = 0

----
\* Two runs of LeadGenerationPipeline.run over the same URLs in two orders,
\* each against an output file of its own that is absent at the start, with
\* test_mode off.  What the extraction and the publication search give for a
\* URL is the same in both runs.

\* the answer recorded for a URL whose profile is not looked up
no_lookup == [error |-> "none", ids |-> 0]

\* per URL: the outcome of extract_profile and the answer of the publication
\* search (the answer is fixed where there is no lookup)
UrlResults ==
    {r \in [outcome : ExtractionOutcomes, answer : PubMedAnswers] :
        (IF r.outcome.ok
         THEN raises_AttributeError(r.outcome.data) \/ ~passes_threshold(r.outcome.data)
         ELSE TRUE) => r.answer = no_lookup}

\* extract_batch(urls): one profile per URL, in order
extract_batch(urls, results) ==
    [i \in 1..Len(urls) |-> extract_profile(urls[i], results[urls[i]].outcome)]

\* process_batch raises on one of the profiles
batch_raises(batch) ==
    \E i \in 1..Len(batch) :
        batch[i].extraction_status = "success" /\ raises_AttributeError(batch[i])

\* process_batch(urls), when it does not raise: the records of the profiles
\* that failed extraction or passed the threshold, in order
process_batch(urls, results) ==
    LET batch == extract_batch(urls, results)
        Kept(i) == batch[i].extraction_status # "success" \/ profile_passes(batch[i])
        kept_idx == SelectSeq([i \in 1..Len(batch) |-> i], Kept)
    IN  [k \in 1..Len(kept_idx) |->
            IF batch[kept_idx[k]].extraction_status # "success"
            THEN failed_record(batch[kept_idx[k]])
            ELSE enriched_record(batch[kept_idx[k]], results[urls[kept_idx[k]]].answer)]

InitOrder ==
    /\ ScorerIdle
    /\ RunNotStarted
    /\ EmailIdle
    /\ ExtractIdle
    /\ ParseIdle
    /\ SeqIdle
    /\ AltIdle
    /\ \E n \in 1..MaxUrls :
        /\ order_urls \in {<<[i \in 1..n |-> i], f>> : f \in Permutations_of(n)}
        /\ order_results \in [1..n -> UrlResults]
    /\ order_df = <<EmptyDF, EmptyDF>>
    /\ order_batch = <<0, 0>>
    /\ order_pc = <<"batch", "batch">>

\* one pass of the batch loop of run r, when process_batch raises
OrderBatchRaises(r) ==
    /\ order_pc[r] = "batch"
    /\ batch_raises(extract_batch(batch_urls(order_urls[r], order_batch[r]), order_results))
    /\ order_pc' = [order_pc EXCEPT ![r] = "profile_error"]
    /\ UNCHANGED <<order_urls, order_results, order_df, order_batch>>

\* one pass of the batch loop of run r, when sorting raises KeyError
OrderBatchKeyError(r) ==
    /\ order_pc[r] = "batch"
    /\ LET urls == batch_urls(order_urls[r], order_batch[r])
           combined_df == combine(order_df[r], DataFrame(process_batch(urls, order_results)))
       IN  /\ ~batch_raises(extract_batch(urls, order_results))
           /\ \/ "probability_score" \notin combined_df.columns
              \/ "extraction_status" \notin combined_df.columns
    /\ order_pc' = [order_pc EXCEPT ![r] = "crashed"]
    /\ UNCHANGED <<order_urls, order_results, order_df, order_batch>>

\* one pass of the batch loop of run r: process_batch, combine, sort, rank, save
OrderBatch(r) ==
    /\ order_pc[r] = "batch"
    /\ LET urls == batch_urls(order_urls[r], order_batch[r])
           combined_df == combine(order_df[r], DataFrame(process_batch(urls, order_results)))
       IN  /\ ~batch_raises(extract_batch(urls, order_results))
           /\ "probability_score" \in combined_df.columns
           /\ "extraction_status" \in combined_df.columns
           /\ \E sorted \in sort_values(combined_df.rows) :
                order_df' = [order_df EXCEPT ![r] =
                                [columns |-> combined_df.columns \cup {"rank"},
                                 rows |-> assign_ranks(sorted)]]
    /\ IF end_idx(order_urls[r], order_batch[r]) < Len(order_urls[r])
       THEN /\ order_batch' = [order_batch EXCEPT ![r] = @ + 1]
            /\ order_pc' = order_pc
       ELSE /\ order_batch' = order_batch
            /\ order_pc' = [order_pc EXCEPT ![r] = "done"]
    /\ UNCHANGED <<order_urls, order_results>>

NextOrder ==
    \E r \in 1..2 :
        /\ \/ OrderBatch(r)
           \/ OrderBatchRaises(r)
           \/ OrderBatchKeyError(r)
        /\ UNCHANGED <<scorer_vars, run_vars, email_vars, extract_vars, parse_vars, seq_vars,
                       alt_vars>>

SpecOrder == InitOrder /\ [][NextOrder]_vars

\* the output file of run r
order_file(r) == to_csv(order_df[r].rows)

\* the URL, rank and score of each row of the output file of run r
order_ranking(r) ==
    {<<order_file(r)[i].linkedin_url, order_file(r)[i].rank,
       order_file(r)[i].probability_score>> : i \in 1..Len(order_file(r))}

\* C21 (as claimed): two runs over permutations of the same URLs, with the
\* same extraction and enrichment results per URL and no prior output, give
\* each URL the same rank and the same score in the final output.
C21_RankIndependentOfOrder ==
    (order_pc = <<"done", "done">>) => order_ranking(1) = order_ranking(2)

----
\* One run of LeadGenerationPipeline.run, traced at the granularity of the
\* operations it starts and waits for: the extraction of a profile
\* (await self.extract_profile in extract_batch), the enrichment and scoring
\* of a profile (one pass of the loop of process_batch) and the write of the
\* output file (to_csv).  run() is one coroutine and starts no task or thread.

\* an operation, on a URL (0 for the write of the file)
operation(kind, url) == [kind |-> kind, url |-> url]

\* mutant of await_returned: the operation is left running
await_not_awaited(active, op) == active

\* `await op` has returned (or the synchronous call has): op is over
await_returned(active, op) == active \ {op}

\* how the extraction and the threshold end for a profile
ProfileFates == {"failed", "rejected", "passed"}

InitSeq ==
    /\ ScorerIdle
    /\ RunNotStarted
    /\ EmailIdle
    /\ ExtractIdle
    /\ ParseIdle
    /\ OrderIdle
    /\ AltIdle
    /\ seq_urls \in {[i \in 1..n |-> i] : n \in 1..MaxUrls}
    /\ seq_pc = "extract"
    /\ seq_batch = 0
    /\ seq_profiles = <<>>
    /\ seq_pos = 1
    /\ seq_active = {}
    /\ seq_log = <<>>

\* the URLs of the current batch
seq_batch_urls == batch_urls(seq_urls, seq_batch)

\* extract_batch: result = await self.extract_profile(url, ...) is entered
BeginExtract ==
    /\ seq_pc = "extract"
    /\ LET op == operation("extract", seq_batch_urls[Len(seq_profiles) + 1])
       IN  /\ seq_active' = seq_active \cup {op}
           /\ seq_log' = Append(seq_log, [ev |-> "begin", op |-> op])
    /\ seq_pc' = "extracting"
    /\ UNCHANGED <<seq_urls, seq_batch, seq_profiles, seq_pos>>

\* extract_batch: the await returns and the result is appended
EndExtract ==
    /\ seq_pc = "extracting"
    /\ LET op == operation("extract", seq_batch_urls[Len(seq_profiles) + 1])
       IN  /\ seq_active' = await_returned(seq_active, op)
           /\ seq_log' = Append(seq_log, [ev |-> "end", op |-> op])
    /\ \E fate \in ProfileFates : seq_profiles' = Append(seq_profiles, fate)
    /\ seq_pc' = IF Len(seq_profiles) + 1 = Len(seq_batch_urls) THEN "enrich" ELSE "extract"
    /\ seq_pos' = 1
    /\ UNCHANGED <<seq_urls, seq_batch>>

\* process_batch: a pass of the loop for a profile that is not enriched
SkipProfile ==
    /\ seq_pc = "enrich"
    /\ seq_profiles[seq_pos] # "passed"
    /\ seq_pos' = seq_pos + 1
    /\ seq_pc' = IF seq_pos = Len(seq_profiles) THEN "write" ELSE "enrich"
    /\ UNCHANGED <<seq_urls, seq_batch, seq_profiles, seq_active, seq_log>>

\* process_batch: the enrichment of a profile that passed the threshold begins
BeginEnrich ==
    /\ seq_pc = "enrich"
    /\ seq_profiles[seq_pos] = "passed"
    /\ LET op == operation("enrich", seq_batch_urls[seq_pos])
       IN  /\ seq_active' = seq_active \cup {op}
           /\ seq_log' = Append(seq_log, [ev |-> "begin", op |-> op])
    /\ seq_pc' = "enriching"
    /\ UNCHANGED <<seq_urls, seq_batch, seq_profiles, seq_pos>>

\* process_batch: the record is appended and asyncio.sleep(1) has returned
EndEnrich ==
    /\ seq_pc = "enriching"
    /\ LET op == operation("enrich", seq_batch_urls[seq_pos])
       IN  /\ seq_active' = await_returned(seq_active, op)
           /\ seq_log' = Append(seq_log, [ev |-> "end", op |-> op])
    /\ seq_pos' = seq_pos + 1
    /\ seq_pc' = IF seq_pos = Len(seq_profiles) THEN "write" ELSE "enrich"
    /\ UNCHANGED <<seq_urls, seq_batch, seq_profiles>>

\* run(): to_csv is entered
BeginWrite ==
    /\ seq_pc = "write"
    /\ seq_active' = seq_active \cup {operation("write", 0)}
    /\ seq_log' = Append(seq_log, [ev |-> "begin", op |-> operation("write", 0)])
    /\ seq_pc' = "writing"
    /\ UNCHANGED <<seq_urls, seq_batch, seq_profiles, seq_pos>>

\* run(): to_csv has returned; the next batch, or the end of the loop
EndWrite ==
    /\ seq_pc = "writing"
    /\ seq_active' = await_returned(seq_active, operation("write", 0))
    /\ seq_log' = Append(seq_log, [ev |-> "end", op |-> operation("write", 0)])
    /\ IF end_idx(seq_urls, seq_batch) < Len(seq_urls)
       THEN /\ seq_batch' = seq_batch + 1
            /\ seq_pc' = "extract"
       ELSE /\ seq_batch' = seq_batch
            /\ seq_pc' = "done"
    /\ seq_profiles' = <<>>
    /\ seq_pos' = 1
    /\ UNCHANGED seq_urls

NextSeq ==
    /\ \/ BeginExtract
       \/ EndExtract
       \/ SkipProfile
       \/ BeginEnrich
       \/ EndEnrich
       \/ BeginWrite
       \/ EndWrite
    /\ UNCHANGED <<scorer_vars, run_vars, email_vars, extract_vars, parse_vars, order_vars,
                   alt_vars>>

SpecSeq == InitSeq /\ [][NextSeq]_vars

\* C22: within a run at most one profile is being extracted or enriched at
\* any time, the next operation begins only after the previous one has ended,
\* and at most one write of the output file is in progress, never together
\* with an extraction, an enrichment or another write.
C22_OneOperationAtATime ==
    /\ Cardinality(seq_active) <= 1
    /\ \A i \in 1..Len(seq_log) :
        IF i % 2 = 1
        THEN seq_log[i].ev = "begin"
        ELSE seq_log[i].ev = "end" /\ seq_log[i].op = seq_log[i - 1].op
    /\ (seq_pc = "writing") => seq_active = {operation("write", 0)}

\* a second batch is being written after extractions and an enrichment
C22_Witness ==
    /\ seq_pc = "writing"
    /\ seq_batch = 1
    /\ \E i \in 1..Len(seq_log) : seq_log[i].op.kind = "enrich"
    /\ \E i \in 1..Len(seq_log) : seq_log[i].op.kind = "extract"

----
\* The work queue of a run and its batches (checked under Spec)

\* the URLs of the input that are not in the prior output, in input order
not_yet_processed ==
    LET NotPrior(url) == url \notin prior_urls
    IN  SelectSeq(all_urls, NotPrior)

\* the queue the claim describes: those URLs, up to test_limit in test mode
claimed_queue ==
    IF test_mode
    THEN SubSeq(not_yet_processed, 1, min(TestLimit, Len(not_yet_processed)))
    ELSE not_yet_processed

\* how often url was handed to extract_profile in this run
times_extracted(url) == Cardinality({i \in 1..Len(extract_log) : extract_log[i] = url})

\* C24 (as claimed): in a run the not-yet-processed URLs (up to test_limit in
\* test mode) are handled in input order in consecutive batches of at most
\* batch_size; extract_batch returns one result per URL of the batch, in
\* order, each with its own URL and an extraction_status of 'success' or
\* 'failed'; and when the run is over every such URL has been extracted
\* exactly once.
C24_EveryUrlExtractedOnceInOrder ==
    /\ pc # "idle" => urls_to_process = claimed_queue
    /\ Len(extract_log) <= Len(urls_to_process)
    /\ extract_log = SubSeq(urls_to_process, 1, Len(extract_log))
    /\ pc \in {"extract", "enrich", "checkpoint"} =>
        /\ Len(profiles) <= BatchSize
        /\ Len(extract_log) = batch_num * BatchSize + Len(profiles)
        /\ \A i \in 1..Len(profiles) :
            /\ profiles[i].linkedin_url = urls_to_process[batch_num * BatchSize + i]
            /\ profiles[i].extraction_status \in {"success", "failed"}
    /\ pc \in {"enrich", "checkpoint"} =>
        Len(profiles) = Len(batch_urls(urls_to_process, batch_num))
    /\ pc \in Terminal =>
        \A k \in 1..Len(urls_to_process) : times_extracted(urls_to_process[k]) = 1

----
\* What a checkpoint keeps of the file it replaces (checked under
\* SpecInterrupted)

\* the step is a checkpoint of run() that was written to its end
checkpoint_written == pc = "checkpoint" /\ pc' \in {"extract", "done"}

\* C29 (as claimed): every record that is in the output file when a run
\* starts, or that an earlier checkpoint wrote, is in the file after every
\* later checkpoint with the same score and linkedin_url, whatever the state
\* of the file (readable, empty or unreadable) when the run starts: each
\* checkpoint keeps every record of the file it replaces.
C29_CheckpointKeepsRecords ==
    [][checkpoint_written =>
        \A i \in 1..Len(output_csv.rows) :
            record_count(output_csv'.rows, record_of(output_csv.rows[i]))
                >= record_count(output_csv.rows, record_of(output_csv.rows[i]))]_vars

----
\* Uniqueness of linkedin_url in the output (checked under Spec)

\* C30 (as claimed): the output of run() never holds two records with the
\* same linkedin_url, for every input list, one in which a URL occurs more
\* than once included, and every prior output.
C30_NoDuplicateUrlInOutput ==
    \A i, j \in 1..Len(file_rows) :
        file_rows[i].linkedin_url = file_rows[j].linkedin_url => i = j

----
\* AlternativePipeline (alternative_pipeline.py)

\* number of search queries of a run
MaxQueries == 2

\* number of authors extract_from_pubmed returns for a query
MaxPerQuery == 1

\* largest top_n_results
MaxTopN == 1

\* the words infer_title_from_context looks for in the lower-cased affiliation
affiliation_words ==
    [
     professor |->
        <<"p","r","o","f","e","s","s","o","r">>,
     prof |->
        <<"p","r","o","f",".">>,
     director |->
        <<"d","i","r","e","c","t","o","r">>,
     toxicology |->
        <<"t","o","x","i","c","o","l","o","g","y">>,
     safety |->
        <<"s","a","f","e","t","y">>,
     preclinical |->
        <<"p","r","e","c","l","i","n","i","c","a","l">>,
     head |->
        <<"h","e","a","d">>,
     chief |->
        <<"c","h","i","e","f">>,
     vp |->
        <<"v","p">>,
     vice_president |->
        <<"v","i","c","e"," ","p","r","e","s","i","d","e","n","t">>,
     principal |->
        <<"p","r","i","n","c","i","p","a","l">>,
     postdoc |->
        <<"p","o","s","t","d","o","c">>,
     phd |->
        <<"p","h","d">>,
     ph_d |->
        <<"p","h",".","d">>
    ]

\* the titles infer_title_from_context returns
inferred_titles ==
    [
     professor_of_toxicology |->
        <<"P","r","o","f","e","s","s","o","r"," ","o","f"," ","T","o","x","i","c","o","l","o","g","y">>,
     director_of_toxicology |->
        <<"D","i","r","e","c","t","o","r"," ","o","f"," ","T","o","x","i","c","o","l","o","g","y">>,
     director_of_preclinical_safety |->
        <<"D","i","r","e","c","t","o","r"," ","o","f"," ","P","r","e","c","l","i","n","i","c","a","l"," ","S","a","f","e","t","y">>,
     research_director |->
        <<"R","e","s","e","a","r","c","h"," ","D","i","r","e","c","t","o","r">>,
     head_of_research |->
        <<"H","e","a","d"," ","o","f"," ","R","e","s","e","a","r","c","h">>,
     chief_scientist |->
        <<"C","h","i","e","f"," ","S","c","i","e","n","t","i","s","t">>,
     vp_of_research |->
        <<"V","P"," ","o","f"," ","R","e","s","e","a","r","c","h">>,
     principal_scientist |->
        <<"P","r","i","n","c","i","p","a","l"," ","S","c","i","e","n","t","i","s","t">>,
     postdoctoral_researcher |->
        <<"P","o","s","t","d","o","c","t","o","r","a","l"," ","R","e","s","e","a","r","c","h","e","r">>,
     senior_research_scientist |->
        <<"S","e","n","i","o","r"," ","R","e","s","e","a","r","c","h"," ","S","c","i","e","n","t","i","s","t">>,
     research_scientist |->
        <<"R","e","s","e","a","r","c","h"," ","S","c","i","e","n","t","i","s","t">>,
     senior_toxicologist |->
        <<"S","e","n","i","o","r"," ","T","o","x","i","c","o","l","o","g","i","s","t">>,
     scientist |->
        <<"S","c","i","e","n","t","i","s","t">>
    ]

\* does the lower-cased affiliation contain the words
aff_has(affiliation_lower, word) == contains(affiliation_lower, word)

\* infer_title_from_context(name, affiliation, pub_count)
infer_title_from_context(name, affiliation, pub_count) ==
    LET a == lower(affiliation)
    IN  IF aff_has(a, affiliation_words.professor) \/ aff_has(a, affiliation_words.prof) THEN inferred_titles.professor_of_toxicology
        ELSE IF aff_has(a, affiliation_words.director) /\ aff_has(a, affiliation_words.toxicology) THEN inferred_titles.director_of_toxicology
        ELSE IF aff_has(a, affiliation_words.director) /\ (aff_has(a, affiliation_words.safety) \/ aff_has(a, affiliation_words.preclinical))
             THEN inferred_titles.director_of_preclinical_safety
        ELSE IF aff_has(a, affiliation_words.director) THEN inferred_titles.research_director
        ELSE IF aff_has(a, affiliation_words.head) THEN inferred_titles.head_of_research
        ELSE IF aff_has(a, affiliation_words.chief) THEN inferred_titles.chief_scientist
        ELSE IF aff_has(a, affiliation_words.vp) \/ aff_has(a, affiliation_words.vice_president) THEN inferred_titles.vp_of_research
        ELSE IF aff_has(a, affiliation_words.principal) THEN inferred_titles.principal_scientist
        ELSE IF aff_has(a, affiliation_words.postdoc) THEN inferred_titles.postdoctoral_researcher
        ELSE IF aff_has(a, affiliation_words.phd) \/ aff_has(a, affiliation_words.ph_d)
             THEN (IF pub_count >= 10 THEN inferred_titles.senior_research_scientist
                   ELSE inferred_titles.research_scientist)
        ELSE IF pub_count >= 20 THEN inferred_titles.senior_toxicologist
        ELSE IF pub_count >= 10 THEN inferred_titles.senior_research_scientist
        ELSE IF pub_count >= 5 THEN inferred_titles.research_scientist
        ELSE inferred_titles.scientist

\* enrich_and_score(author): the profile it builds for the scorer
author_profile(author) ==
    LET company_data == enrich_company(author.company, author.location)
    IN  [title |-> infer_title_from_context(author.name, author.affiliation,
                                            author.publication_count),
         about |-> author.affiliation,
         skills |-> <<>>,
         funding_stage |-> company_data.funding_stage,
         is_biotech_hub |-> company_data.is_biotech_hub,
         publication_count |-> author.publication_count,
         has_recent_pubs |-> author.publication_count > 0]

\* enrich_and_score(author): <<>> for None, else <<the lead>>
enrich_and_score(author) ==
    IF ~passes_threshold(author_profile(author)) THEN <<>>
    ELSE <<[rank |-> 0,
            probability_score |-> calculate_score(author_profile(author)).probability_score,
            name |-> author.name,
            publications |-> author.publication_count]>>

\* an author record as _parse_pubmed_xml returns it
author_record(name, affiliation, count) ==
    [name |-> name, affiliation |-> affiliation,
     company |-> _extract_institution(affiliation),
     location |-> _extract_location(affiliation),
     publication_count |-> count]

\* the author records of the runs: two names; one publication with an
\* affiliation outside the domain, one publication with an affiliation in the
\* domain, twenty publications without affiliation
AltAuthors ==
    LET names ==
            { <<"W","e","i"," ","W","a","n","g">>,   \* "Wei Wang"
              <<"A","n","a"," ","R","u","i","z">> }  \* "Ana Ruiz"
        roche ==    \* "Roche"
            <<"R","o","c","h","e">>
        pfizer ==   \* "Department of Toxicology, Pfizer, Groton, USA"
            <<"D","e","p","a","r","t","m","e","n","t"," ","o","f"," ","T","o","x","i","c","o","l","o","g","y",","," ","P","f","i","z","e","r",","," ","G","r","o","t","o","n",","," ","U","S","A">>
    IN  {author_record(name, ac[1], ac[2]) :
            name \in names,
            ac \in {<<roche, 1>>, <<pfizer, 1>>, <<<<>>, 20>>}}

\* enrich_and_score on the author records of the runs, tabulated
AltLeads == [author \in AltAuthors |-> enrich_and_score(author)]

\* what extract_from_pubmed can return for a query: authors with distinct
\* names (_parse_pubmed_xml keeps one record per name), none on an error
QueryResults ==
    {q \in UNION {[1..n -> AltAuthors] : n \in 0..MaxPerQuery} :
        \A i, j \in 1..Len(q) : q[i].name = q[j].name => i = j}

\* mutant of dedup_author: on equal counts the later record replaces the kept one
dedup_author_keep_latest(unique, author) ==
    LET i == record_index(unique, author.name)
    IN  IF i = 0 THEN Append(unique, author)
        ELSE IF author.publication_count >= unique[i].publication_count
             THEN [unique EXCEPT ![i] = author]
             ELSE unique

\* the body of `for author in all_authors` (deduplicate by name).  A dict
\* keeps a key at the position of its first insertion.
dedup_author(unique, author) ==
    LET i == record_index(unique, author.name)
    IN  IF i = 0 THEN Append(unique, author)
        ELSE IF author.publication_count > unique[i].publication_count
             THEN [unique EXCEPT ![i] = author]
             ELSE unique

\* the loop over all_authors, from the k-th on
RECURSIVE deduplicate(_, _, _)
deduplicate(unique, authors, k) ==
    IF k > Len(authors) THEN unique
    ELSE deduplicate(dedup_author(unique, authors[k]), authors, k + 1)

\* mutant of head: every row is kept
head_all(rows, n) == rows

\* df.head(n), n >= 0
head(rows, n) == SubSeq(rows, 1, min(n, Len(rows)))

\* df['rank'] = range(1, len(df) + 1)
rank_all(rows) == [i \in 1..Len(rows) |-> [rows[i] EXCEPT !.rank = i]]

InitAlt ==
    /\ ScorerIdle
    /\ RunNotStarted
    /\ EmailIdle
    /\ ExtractIdle
    /\ ParseIdle
    /\ OrderIdle
    /\ SeqIdle
    /\ alt_queries \in UNION {[1..n -> QueryResults] : n \in 1..MaxQueries}
    /\ alt_top_n \in 0..MaxTopN
    /\ alt_pc = "search"
    /\ alt_all_authors = <<>>
    /\ alt_unique = <<>>
    /\ alt_leads = <<>>
    /\ alt_scored = <<>>
    /\ alt_output = <<"absent">>

\* the search loop and the deduplication loop: all_authors.extend(authors) for
\* each query, then unique_authors
AltSearchAndDeduplicate ==
    /\ alt_pc = "search"
    /\ LET RECURSIVE extended(_)
           extended(k) == IF k = 0 THEN <<>> ELSE extended(k - 1) \o alt_queries[k]
           all == extended(Len(alt_queries))
       IN  /\ alt_all_authors' = all
           /\ alt_unique' = deduplicate(<<>>, all, 1)
    /\ alt_pc' = "enrich"
    /\ UNCHANGED <<alt_queries, alt_top_n, alt_leads, alt_scored, alt_output>>

\* one pass of `for i, (name, author) in enumerate(unique_authors.items())`
AltEnrichAuthor ==
    /\ alt_pc = "enrich"
    /\ Len(alt_scored) < Len(alt_unique)
    /\ LET author == alt_unique[Len(alt_scored) + 1]
       IN  /\ alt_scored' = Append(alt_scored, author.name)
           /\ alt_leads' = alt_leads \o AltLeads[author]
    /\ UNCHANGED <<alt_queries, alt_top_n, alt_pc, alt_all_authors, alt_unique, alt_output>>

\* sort, keep the top N, rank, save
AltWrite ==
    /\ alt_pc = "enrich"
    /\ Len(alt_scored) = Len(alt_unique)
    /\ alt_leads # <<>>
    /\ \E sorted \in sort_values(alt_leads) :
        alt_output' = rank_all(head(sorted, alt_top_n))
    /\ alt_pc' = "done"
    /\ UNCHANGED <<alt_queries, alt_top_n, alt_all_authors, alt_unique, alt_leads, alt_scored>>

\* no lead passed the threshold: pd.DataFrame([]) has no probability_score
\* column and sort_values raises KeyError; nothing is written
AltWriteKeyError ==
    /\ alt_pc = "enrich"
    /\ Len(alt_scored) = Len(alt_unique)
    /\ alt_leads = <<>>
    /\ alt_pc' = "crashed"
    /\ UNCHANGED <<alt_queries, alt_top_n, alt_all_authors, alt_unique, alt_leads, alt_scored,
                   alt_output>>

NextAlt ==
    /\ \/ AltSearchAndDeduplicate
       \/ AltEnrichAuthor
       \/ AltWrite
       \/ AltWriteKeyError
    /\ UNCHANGED <<scorer_vars, run_vars, email_vars, extract_vars, parse_vars, order_vars,
                   seq_vars>>

SpecAlt == InitAlt /\ [][NextAlt]_vars

----
C26_DeduplicatedByName ==
    alt_pc \in {"enrich", "done", "crashed"} =>
        /\ \A i, j \in 1..Len(alt_unique) : alt_unique[i].name = alt_unique[j].name => i = j
        /\ \A i \in 1..Len(alt_all_authors) :
            \E k \in 1..Len(alt_unique) : alt_unique[k].name = alt_all_authors[i].name
        /\ \A k \in 1..Len(alt_unique) :
            LET same == {i \in 1..Len(alt_all_authors) :
                            alt_all_authors[i].name = alt_unique[k].name}
                best == {i \in same : \A j \in same :
                            alt_all_authors[i].publication_count
                                >= alt_all_authors[j].publication_count}
            IN  /\ best # {}
                /\ \E i \in best : /\ \A j \in best : i <= j
                                   /\ alt_unique[k] = alt_all_authors[i]
        /\ \A i, j \in 1..Len(alt_scored) : alt_scored[i] = alt_scored[j] => i = j
        /\ \A i \in 1..Len(alt_scored) : alt_scored[i] = alt_unique[i].name

\* two queries returned different records of one name with equal counts; the
\* first one was kept and the name was enriched and scored once
C26_Witness ==
    /\ alt_pc \in {"done", "crashed"}
    /\ Len(alt_all_authors) = 2
    /\ alt_all_authors[1].name = alt_all_authors[2].name
    /\ alt_all_authors[1].publication_count = alt_all_authors[2].publication_count
    /\ alt_all_authors[1] # alt_all_authors[2]
    /\ alt_unique = <<alt_all_authors[1]>>
    /\ alt_scored = <<alt_all_authors[1].name>>

====
